---- MODULE Spec2Model ----
(***************************************************************************)
(* Model of the cloud scraper of tv-currencies-watcher:                    *)
(*   src/cloud/parsing.py            detail-page extraction                *)
(*   src/cloud/scraper.py            http_get and the crawl run (main)     *)
(*   src/cloud/backfill_pricescale.py  http_get and the backfill run (main)*)
(*   src/cloud/db.py                 the charts table and its upsert       *)
(*                                                                         *)
(* Python values are modelled as records of one shape                      *)
(*   [t |-> type tag, n |-> number, s |-> text, e |-> entries]             *)
(* t is one of "null" "bool" "int" "float" "str" "list" "dict".            *)
(* A text is a sequence of tokens, so that substring tests are computed.   *)
(* A dict keeps its entries [k |-> key, v |-> value] in insertion order,   *)
(* a list keeps entries with k = "".  A str whose text is itself valid     *)
(* JSON carries the decoded value as its single entry (what json.loads     *)
(* returns); any other str has no entries.                                 *)
(* An exception raised by a Python expression is the value JRaise.         *)
(***************************************************************************)
EXTENDS Integers, Sequences, FiniteSets, TLC

\* ------------------------------------------------------------ Python values

JNull == [t |-> "null", n |-> 0, s |-> <<>>, e |-> <<>>]
JRaise == [t |-> "raise", n |-> 0, s |-> <<>>, e |-> <<>>]
JAbsent == [t |-> "absent", n |-> 0, s |-> <<>>, e |-> <<>>]
JInt(i) == [t |-> "int", n |-> i, s |-> <<>>, e |-> <<>>]
JFloat(i) == [t |-> "float", n |-> i, s |-> <<>>, e |-> <<>>]
JBool(b) == [t |-> "bool", n |-> IF b THEN 1 ELSE 0, s |-> <<>>, e |-> <<>>]
JStr(toks) == [t |-> "str", n |-> 0, s |-> toks, e |-> <<>>]
JStrJson(v) == [t |-> "str", n |-> 0, s |-> <<"json-text">>, e |-> <<[k |-> "", v |-> v]>>]
JDict(es) == [t |-> "dict", n |-> 0, s |-> <<>>, e |-> es]
E(key, val) == [k |-> key, v |-> val]
Opt(key, val) == IF val = JAbsent THEN <<>> ELSE <<E(key, val)>>
RECURSIVE AsItems(_)
AsItems(vals) == IF vals = <<>> THEN <<>> ELSE <<E("", Head(vals))>> \o AsItems(Tail(vals))
JList(vals) == [t |-> "list", n |-> 0, s |-> <<>>, e |-> AsItems(vals)]
EmptyDict == JDict(<<>>)
EmptyStr == JStr(<<>>)

Min(a, b) == IF a < b THEN a ELSE b

IsDict(v) == v.t = "dict"
IsList(v) == v.t = "list"
IsStr(v) == v.t = "str"
\* isinstance(v, int): bool is a subclass of int in Python
IsInt(v) == v.t \in {"int", "bool"}

\* truth value of a Python object, as used by `x or y` and `not x`
Truthy(v) ==
    CASE v.t = "null" -> FALSE
      [] v.t \in {"bool", "int", "float"} -> v.n # 0
      [] v.t = "str" -> Len(v.s) > 0
      [] v.t \in {"list", "dict"} -> Len(v.e) > 0
      [] OTHER -> TRUE

\* x or y
PyOr(x, y) == IF Truthy(x) THEN x ELSE y

HasKey(d, key) == \E i \in 1..Len(d.e) : d.e[i].k = key
Lookup(d, key) == d.e[CHOOSE i \in 1..Len(d.e) : d.e[i].k = key].v

\* d.get(key) on a dict; AttributeError on anything else
PyGet(d, key) ==
    IF ~IsDict(d) THEN JRaise
    ELSE IF HasKey(d, key) THEN Lookup(d, key) ELSE JNull

\* d.get(key, default) on a dict
PyGetDefault(d, key, default) == IF HasKey(d, key) THEN Lookup(d, key) ELSE default

\* `marker in text` on strings: a contiguous run of tokens equal to marker
StrContains(text, marker) ==
    \E i \in 0..(Len(text) - Len(marker)) :
        \A j \in 1..Len(marker) : text[i + j] = marker[j]

\* json.loads of a str value: <<TRUE, value>> or <<FALSE, _>> when it raises
JsonLoadsOk(v) == Len(v.e) = 1
JsonLoadsVal(v) == v.e[1].v

\* ------------------------------------------------------------ parsing.py

PK(key) == [isidx |-> FALSE, k |-> key, i |-> 0]
PI(idx) == [isidx |-> TRUE, k |-> "", i |-> idx]

RECURSIVE _safe_get(_, _)
_safe_get(d, path) ==
    IF path = <<>> THEN d
    ELSE LET key == Head(path) IN
         IF IsDict(d) /\ ~key.isidx /\ HasKey(d, key.k)
            THEN _safe_get(Lookup(d, key.k), Tail(path))
         ELSE IF IsList(d) /\ key.isidx /\ 0 <= key.i /\ key.i < Len(d.e)
            THEN _safe_get(d.e[key.i + 1].v, Tail(path))
         ELSE JNull

\* str.replace("Z", "+00:00")
RECURSIVE ReplaceZ(_)
ReplaceZ(text) ==
    IF text = <<>> THEN <<>>
    ELSE <<IF Head(text) = "Z" THEN "+00:00" ELSE Head(text)>> \o ReplaceZ(Tail(text))

\* datetime.fromisoformat(...).timestamp() on the texts the model uses;
\* every other text makes fromisoformat raise ValueError
IsoKnown == {<<"2024-01-01T00:00:00", "+00:00">>, <<"2024-01-02T00:00:00", "+00:00">>}
IsoSeconds(text) == IF text[1] = "2024-01-01T00:00:00" THEN 1704067200 ELSE 1704153600

iso_to_epoch(iso_str) ==
    IF ~Truthy(iso_str) THEN JNull
    ELSE IF ~IsStr(iso_str) THEN JNull
    ELSE IF ReplaceZ(iso_str.s) \in IsoKnown THEN JInt(IsoSeconds(ReplaceZ(iso_str.s)))
    ELSE JNull

SourcePaths ==
    << <<PK("panes"), PI(0), PK("sources")>>,
       <<PK("charts"), PI(0), PK("panes"), PI(0), PK("sources")>> >>

\* the entries of path p of content, when that is a list
SourcesAt(content, p) ==
    LET sources == _safe_get(content, p) IN
    IF IsList(sources) THEN sources.e ELSE <<>>

ElementOf(item) ==
    JDict(<<E("type", PyGet(item, "type")), E("state", PyGet(item, "state")),
            E("points", PyGet(item, "points")), E("indexes", PyGet(item, "indexes"))>>)

IsLineTool(item) ==
    /\ IsDict(item)
    /\ LET typ == PyGetDefault(item, "type", EmptyStr) IN
       IsStr(typ) /\ StrContains(typ.s, <<"LineTool">>)

RECURSIVE LineToolsOf(_)
LineToolsOf(es) ==
    IF es = <<>> THEN <<>>
    ELSE (IF IsLineTool(Head(es).v) THEN <<ElementOf(Head(es).v)>> ELSE <<>>)
         \o LineToolsOf(Tail(es))

\* content after the leading `if isinstance(content, str): json.loads`
DecodeOk(content) == IsStr(content) => JsonLoadsOk(content)
Decoded(content) == IF IsStr(content) THEN JsonLoadsVal(content) ELSE content

\* an extraction in which the second path is walked only when the first gave nothing
_extract_elements_first_path_wins(content) ==
    IF ~DecodeOk(content) THEN JList(<<>>)
    ELSE IF LineToolsOf(SourcesAt(Decoded(content), SourcePaths[1])) # <<>>
         THEN JList(LineToolsOf(SourcesAt(Decoded(content), SourcePaths[1])))
    ELSE JList(LineToolsOf(SourcesAt(Decoded(content), SourcePaths[2])))

_extract_elements_from_content(content) ==
    IF ~DecodeOk(content) THEN JList(<<>>)
    ELSE JList(LineToolsOf(SourcesAt(Decoded(content), SourcePaths[1]))
               \o LineToolsOf(SourcesAt(Decoded(content), SourcePaths[2])))

RECURSIVE DictsOf(_)
DictsOf(es) ==
    IF es = <<>> THEN <<>>
    ELSE (IF IsDict(Head(es).v) THEN <<Head(es).v>> ELSE <<>>) \o DictsOf(Tail(es))

\* a sequence of the source dicts
_iter_sources(content) ==
    IF ~DecodeOk(content) THEN <<>>
    ELSE DictsOf(SourcesAt(Decoded(content), SourcePaths[1]))
         \o DictsOf(SourcesAt(Decoded(content), SourcePaths[2]))

\* the body shared by both loops of get_pricescale_from_idea: the int found in
\* src, JNull when there is none, JRaise when a .get hits a non-dict
SrcPricescale(src) ==
    LET state == PyOr(PyGet(src, "state"), EmptyDict)
        fmt == PyOr(PyGet(src, "formattingDeps"), EmptyDict)
    IN  IF ~IsDict(state) THEN JRaise
        ELSE IF IsInt(PyGet(state, "pricescale")) THEN PyGet(state, "pricescale")
        ELSE IF ~IsDict(fmt) THEN JRaise
        ELSE IF IsInt(PyGet(fmt, "pricescale")) THEN PyGet(fmt, "pricescale")
        ELSE JNull

IsMainSeries(src) ==
    LET t == PyOr(PyGet(src, "type"), EmptyStr) IN
    IsStr(t) /\ StrContains(t.s, <<"MainSeries">>)

\* a first loop that stops at the first source of type MainSeries, integer or not
RECURSIVE MainSeriesLoop_first_only(_)
MainSeriesLoop_first_only(sources) ==
    IF sources = <<>> THEN JNull
    ELSE IF IsMainSeries(Head(sources)) THEN SrcPricescale(Head(sources))
    ELSE MainSeriesLoop_first_only(Tail(sources))

RECURSIVE MainSeriesLoop(_)
MainSeriesLoop(sources) ==
    IF sources = <<>> THEN JNull
    ELSE IF IsMainSeries(Head(sources)) /\ SrcPricescale(Head(sources)) # JNull
         THEN SrcPricescale(Head(sources))
    ELSE MainSeriesLoop(Tail(sources))

RECURSIVE FallbackLoop(_)
FallbackLoop(sources) ==
    IF sources = <<>> THEN JNull
    ELSE IF SrcPricescale(Head(sources)) # JNull THEN SrcPricescale(Head(sources))
    ELSE FallbackLoop(Tail(sources))

\* ps after `ps = sym.get("pricescale"); if ps is None: ps = sym.get("price_scale")`
SymbolCandidate(sym) ==
    IF PyGet(sym, "pricescale") = JNull THEN PyGet(sym, "price_scale")
    ELSE PyGet(sym, "pricescale")

get_pricescale_from_idea(idea) ==
    LET sym == PyOr(PyGet(idea, "symbol"), EmptyDict)
        sources == _iter_sources(PyGet(idea, "content"))
    IN  IF ~IsDict(sym) THEN JRaise
        ELSE IF IsInt(SymbolCandidate(sym)) THEN SymbolCandidate(sym)
        ELSE IF MainSeriesLoop(sources) # JNull THEN MainSeriesLoop(sources)
        ELSE FallbackLoop(sources)

RECURSIVE _deep_find(_, _)
RECURSIVE DeepFindIn(_, _)
\* a search that walks the values of a dict before it looks at the dict's own key
_deep_find_children_first(data, key) ==
    IF IsDict(data) THEN
        IF DeepFindIn(data.e, key) # JNull THEN DeepFindIn(data.e, key)
        ELSE IF HasKey(data, key) THEN Lookup(data, key) ELSE JNull
    ELSE IF IsList(data) THEN DeepFindIn(data.e, key)
    ELSE JNull
_deep_find(data, key) ==
    IF IsDict(data) THEN
        IF HasKey(data, key) THEN Lookup(data, key) ELSE DeepFindIn(data.e, key)
    ELSE IF IsList(data) THEN DeepFindIn(data.e, key)
    ELSE JNull
DeepFindIn(es, key) ==
    IF es = <<>> THEN JNull
    ELSE IF _deep_find(Head(es).v, key) # JNull THEN _deep_find(Head(es).v, key)
    ELSE DeepFindIn(Tail(es), key)

\* A page is the sequence of its <script type="application/prs.init-data+json">
\* contents: [kind |-> "empty" | "invalid" | "json", j |-> decoded value]
Frag(val) == [kind |-> "json", j |-> val]
FragEmpty == [kind |-> "empty", j |-> JNull]
FragInvalid == [kind |-> "invalid", j |-> JNull]

\* the value of `idea` after the loop over the scripts
RECURSIVE FindIdea(_, _)
FindIdea(scripts, idea) ==
    IF scripts = <<>> THEN idea
    ELSE IF Head(scripts).kind # "json" THEN FindIdea(Tail(scripts), idea)
    ELSE IF IsDict(_deep_find(Head(scripts).j, "ssrIdeaData"))
         THEN _deep_find(Head(scripts).j, "ssrIdeaData")
    ELSE FindIdea(Tail(scripts), _deep_find(Head(scripts).j, "ssrIdeaData"))

\* the null record as it was before the price scale joined the payload
NullRecord_no_pricescale ==
    JDict(<<E("username", JNull), E("symbol", JNull), E("created_at", JNull),
            E("interval", JNull), E("direction", JNull),
            E("data", JDict(<<E("chart_url", JNull), E("name", JNull), E("webp_url", JNull),
                              E("updated_at", JNull), E("likes_count", JNull),
                              E("comments_count", JNull), E("views", JNull),
                              E("description_ast", JNull), E("updates", JNull),
                              E("elements", JList(<<>>))>>))>>)

NullRecord ==
    JDict(<<E("username", JNull), E("symbol", JNull), E("created_at", JNull),
            E("interval", JNull), E("direction", JNull),
            E("data", JDict(<<E("chart_url", JNull), E("name", JNull), E("webp_url", JNull),
                              E("updated_at", JNull), E("likes_count", JNull),
                              E("comments_count", JNull), E("views", JNull),
                              E("description_ast", JNull), E("updates", JNull),
                              E("elements", JList(<<>>)), E("pricescale", JNull)>>))>>)

DataObj(idea, elements, pricescale) ==
    JDict(<<E("chart_url", PyOr(PyGet(idea, "publicPath"), PyGet(idea, "chart_url"))),
            E("name", PyGet(idea, "name")),
            E("webp_url", PyOr(PyGet(idea, "webpUrl"), PyGet(idea, "webp_url"))),
            E("updated_at", PyGet(idea, "updated_at")),
            E("likes_count", PyGet(idea, "likes_count")),
            E("comments_count", PyGet(idea, "comments_count")),
            E("views", PyGet(idea, "views")),
            E("description_ast", PyGet(idea, "description_ast")),
            E("updates", PyGet(idea, "updates")),
            E("elements", elements),
            E("pricescale", pricescale)>>)

\* the record built from a payload dict (lines 244-272); JRaise when it raises
BuildRecord(idea) ==
    LET elements == _extract_elements_from_content(PyGet(idea, "content"))
        sym_obj == PyOr(PyGet(idea, "symbol"), EmptyDict)
        pricescale == get_pricescale_from_idea(idea)
        user == PyOr(PyGet(idea, "user"), EmptyDict)
    IN  IF pricescale = JRaise THEN JRaise
        ELSE IF ~IsDict(user) THEN JRaise
        ELSE JDict(<<E("username", PyGet(user, "username")),
                     E("symbol", PyOr(PyGet(PyOr(sym_obj, EmptyDict), "short_name"),
                                      JStr(<<"NONE">>))),
                     E("created_at", iso_to_epoch(PyGet(idea, "created_at"))),
                     E("interval", PyGet(idea, "interval")),
                     E("direction", PyGet(idea, "direction")),
                     E("data", DataObj(idea, elements, pricescale))>>)

parse_detail_page(html) ==
    LET idea == FindIdea(html, JNull) IN
    IF ~IsDict(idea) THEN NullRecord ELSE BuildRecord(idea)

\* ---- listing (anchor logic)

RECURSIVE SplitOn(_, _, _)
\* text.split(sep), cur being the piece under construction
SplitOn(text, sep, cur) ==
    IF text = <<>> THEN <<cur>>
    ELSE IF Head(text) = sep THEN <<cur>> \o SplitOn(Tail(text), sep, <<>>)
    ELSE SplitOn(Tail(text), sep, Append(cur, Head(text)))

RECURSIVE LStrip(_, _)
LStrip(text, ch) == IF text # <<>> /\ Head(text) = ch THEN LStrip(Tail(text), ch) ELSE text
RECURSIVE RStrip(_, _)
RStrip(text, ch) ==
    IF text # <<>> /\ text[Len(text)] = ch THEN RStrip(SubSeq(text, 1, Len(text) - 1), ch) ELSE text
\* text.strip(ch)
Strip(text, ch) == RStrip(LStrip(text, ch), ch)

StartsWith(text, tok) == text # <<>> /\ Head(text) = tok

\* parts.index(x): the first position of x (1-based), 0 when it raises ValueError
IndexOf(parts, x) ==
    IF \E i \in 1..Len(parts) : parts[i] = x
    THEN CHOOSE i \in 1..Len(parts) : parts[i] = x /\ \A j \in 1..(i - 1) : parts[j] # x
    ELSE 0

SiteRoot == <<"https:", "/", "/", "www.tradingview.com">>

\* AnchorItems that takes the whole segment, slug included, for the identifier
AnchorItems_keep_slug(href) ==
    IF ~StrContains(href, <<"/", "chart", "/">>) THEN <<>>
    ELSE LET full == IF StartsWith(href, "/") THEN SiteRoot \o href ELSE href
             parts == SplitOn(Strip(full, "/"), "/", <<>>)
             idx == IndexOf(parts, <<"chart">>)
         IN  IF idx = 0 \/ idx + 2 > Len(parts) THEN <<>>
             ELSE LET symbol == parts[idx + 1]
                      uuid == parts[idx + 2]
                  IN  <<[uuid |-> uuid,
                         url |-> SiteRoot \o <<"/", "chart", "/">> \o symbol \o <<"/">> \o uuid]>>

\* the list `urls` grows by, for one anchor: one item, or nothing
AnchorItems(href) ==
    IF ~StrContains(href, <<"/", "chart", "/">>) THEN <<>>
    ELSE LET full == IF StartsWith(href, "/") THEN SiteRoot \o href ELSE href
             parts == SplitOn(Strip(full, "/"), "/", <<>>)
             idx == IndexOf(parts, <<"chart">>)
         IN  IF idx = 0 \/ idx + 2 > Len(parts) THEN <<>>
             ELSE LET symbol == parts[idx + 1]
                      uuid == SplitOn(parts[idx + 2], "-", <<>>)[1]
                  IN  <<[uuid |-> uuid,
                         url |-> SiteRoot \o <<"/", "chart", "/">> \o symbol \o <<"/">> \o uuid]>>

RECURSIVE AllAnchorItems(_)
AllAnchorItems(hrefs) ==
    IF hrefs = <<>> THEN <<>> ELSE AnchorItems(Head(hrefs)) \o AllAnchorItems(Tail(hrefs))

\* a de-duplication that keeps the last item of each identifier
RECURSIVE DedupeKeepLast(_, _)
DedupeKeepLast(urls, seen) ==
    IF urls = <<>> THEN <<>>
    ELSE IF \E i \in 2..Len(urls) : urls[i].uuid = Head(urls).uuid
         THEN DedupeKeepLast(Tail(urls), seen)
    ELSE <<Head(urls)>> \o DedupeKeepLast(Tail(urls), seen)

RECURSIVE DedupeKeepOrder(_, _)
DedupeKeepOrder(urls, seen) ==
    IF urls = <<>> THEN <<>>
    ELSE IF Head(urls).uuid \in seen THEN DedupeKeepOrder(Tail(urls), seen)
    ELSE <<Head(urls)>> \o DedupeKeepOrder(Tail(urls), seen \cup {Head(urls).uuid})

\* A listing page is the sequence of the href texts of its <a href> elements.
parse_listing_for_uuids_and_links(hrefs) == DedupeKeepOrder(AllAnchorItems(hrefs), {})

\* ------------------------------------------------------------ inputs

\* the longest sources array of a generated content
MaxSources == 2

\* what a price-scale slot of a payload may hold
SymPsCands == {JAbsent, JNull, JInt(100), JStr(<<"100">>), JBool(TRUE), JFloat(2)}
SymPs2Cands == {JAbsent, JInt(3), JStr(<<"3">>)}

SymbolVals ==
    {JAbsent, JNull, JStr(<<"EURUSD">>), JList(<<JInt(1)>>)}
    \cup {JDict(<<E("short_name", JStr(<<"EURUSD">>))>> \o Opt("pricescale", a) \o Opt("price_scale", b)) :
            a \in SymPsCands, b \in SymPs2Cands}

UserVals == {JAbsent, JDict(<<E("username", JStr(<<"alice">>))>>), JStr(<<"alice">>)}

Src(type, state, fmt) == JDict(Opt("type", type) \o Opt("state", state) \o Opt("formattingDeps", fmt))

SampleSources ==
    { Src(JStr(<<"MainSeries">>), JDict(<<E("pricescale", JInt(5))>>), JAbsent),
      Src(JStr(<<"MainSeries">>), JDict(<<E("pricescale", JStr(<<"5">>))>>), JDict(<<E("pricescale", JInt(6))>>)),
      Src(JStr(<<"MainSeries">>), JAbsent, JAbsent),
      Src(JStr(<<"MainSeries">>), JStr(<<"closed">>), JAbsent),
      Src(JStr(<<"LineTool", "TrendLine">>), JDict(<<E("color", JInt(1))>>), JDict(<<E("pricescale", JInt(7))>>)),
      Src(JStr(<<"Study", "LineTool">>), JAbsent, JList(<<JInt(1)>>)),
      Src(JStr(<<"linetool">>), JDict(<<E("pricescale", JInt(8))>>), JAbsent),
      Src(JInt(4), JAbsent, JDict(<<E("pricescale", JBool(FALSE))>>)),
      JStr(<<"not-a-source">>) }

RECURSIVE SeqsUpTo(_, _)
SeqsUpTo(S, n) ==
    IF n = 0 THEN {<<>>}
    ELSE SeqsUpTo(S, n - 1) \cup {Append(q, x) : q \in SeqsUpTo(S, n - 1), x \in S}

PanesContent(srcs) == JDict(<<E("panes", JList(<<JDict(<<E("sources", JList(srcs))>>)>>))>>)
ChartsContent(srcs) == JDict(<<E("charts", JList(<<PanesContent(srcs)>>))>>)
BothContent(a, b) ==
    JDict(<<E("charts", JList(<<PanesContent(b)>>)),
            E("panes", JList(<<JDict(<<E("sources", JList(a))>>)>>))>>)

ContentVals ==
    {JAbsent, JNull, JStr(<<"not json">>), JList(<<JInt(1)>>), JStrJson(JInt(1)),
     JDict(<<E("panes", JStr(<<"x">>))>>)}
    \cup {PanesContent(q) : q \in SeqsUpTo(SampleSources, MaxSources)}
    \cup {ChartsContent(q) : q \in SeqsUpTo(SampleSources, 1)}
    \cup {JStrJson(PanesContent(q)) : q \in SeqsUpTo(SampleSources, 1)}
    \cup {BothContent(a, b) : a \in SeqsUpTo(SampleSources, 1), b \in SeqsUpTo(SampleSources, 1)}

Idea(symbol, user, content) ==
    JDict(Opt("symbol", symbol) \o Opt("user", user) \o Opt("content", content)
          \o <<E("name", JStr(<<"idea">>)), E("chart_url", JStr(<<"/", "chart", "/", "EURUSD", "/", "u1", "/">>)),
               E("created_at", JStr(<<"2024-01-01T00:00:00", "Z">>))>>)

\* the pages that carry the payload p (by wrapper w), and the pages that carry none
Wrappers == {"top", "nested"}
PageOf(w, p) ==
    IF w = "top" THEN <<Frag(JDict(<<E("ssrIdeaData", p)>>))>>
    ELSE <<FragEmpty, FragInvalid,
           Frag(JList(<<JInt(1), JDict(<<E("props", JDict(<<E("ssrIdeaData", p)>>))>>)>>))>>
NoIdeaPages ==
    { <<>>, <<FragEmpty>>, <<FragInvalid>>, <<Frag(JDict(<<E("ssrIdeaData", JStr(<<"x">>))>>))>>,
      <<Frag(JDict(<<E("other", JInt(1))>>))>> }

\* ------------------------------------------------------------ db.py

\* The charts table is a function from the uuids present to rows; a column
\* holds a Python/JSON value, JNull standing for SQL NULL.
Columns == {"username", "symbol", "created_at", "interval", "direction", "data",
            "scraped_at", "first_seen_at", "source_page"}

has_uuid(session, uuid) == uuid \in DOMAIN session

\* an upsert whose conflict branch also rewrites first_seen_at
upsert_full_record_reset_first_seen(session, uuid, rec, now_epoch, txnow) ==
    LET given == [username |-> PyGet(rec, "username"), symbol |-> PyGet(rec, "symbol"),
                  created_at |-> PyGet(rec, "created_at"), interval |-> PyGet(rec, "interval"),
                  direction |-> PyGet(rec, "direction"), data |-> PyGet(rec, "data"),
                  scraped_at |-> JInt(now_epoch), first_seen_at |-> JInt(txnow)]
        row == [c \in Columns |->
                  IF c \in DOMAIN given THEN given[c]
                  ELSE IF uuid \in DOMAIN session THEN session[uuid][c]
                  ELSE JStr(<<"currencies_recent">>)]
    IN  [u \in DOMAIN session \cup {uuid} |-> IF u = uuid THEN row ELSE session[u]]

\* first_seen_at and source_page take their server defaults on insert; now() is
\* the start time of the transaction
upsert_full_record(session, uuid, rec, now_epoch, txnow) ==
    LET given == [username |-> PyGet(rec, "username"), symbol |-> PyGet(rec, "symbol"),
                  created_at |-> PyGet(rec, "created_at"), interval |-> PyGet(rec, "interval"),
                  direction |-> PyGet(rec, "direction"), data |-> PyGet(rec, "data"),
                  scraped_at |-> JInt(now_epoch)]
        row == [c \in Columns |->
                  IF c \in DOMAIN given THEN given[c]
                  ELSE IF uuid \in DOMAIN session THEN session[uuid][c]
                  ELSE IF c = "first_seen_at" THEN JInt(txnow)
                  ELSE JStr(<<"currencies_recent">>)]
    IN  [u \in DOMAIN session \cup {uuid} |-> IF u = uuid THEN row ELSE session[u]]

\* insert ... on conflict do nothing: a row of NULLs but for the two given columns
insert_first_seen(session, uuid, source_page, now) ==
    IF uuid \in DOMAIN session THEN session
    ELSE [u \in DOMAIN session \cup {uuid} |->
            IF u # uuid THEN session[u]
            ELSE [c \in Columns |->
                    IF c = "first_seen_at" THEN JInt(now)
                    ELSE IF c = "source_page" THEN JStr(source_page)
                    ELSE JNull]]

\* the statements the functions above hand to session.execute
SqlInsertFirstSeen(uuid, source_page) ==
    [op |-> "insert_first_seen", uuid |-> uuid, source_page |-> source_page]
SqlUpsert(uuid) == [op |-> "upsert_full_record", uuid |-> uuid, source_page |-> <<>>]
\* the update statement backfill_pricescale.py executes
SqlUpdate(uuid) == [op |-> "update", uuid |-> uuid, source_page |-> <<>>]

\* ------------------------------------------------------------ settings.py

RETRY_BACKOFF_SECS == 5
SOURCE_PAGE == <<"currencies_recent">>
RECENT_CURRENCIES_URL ==
    SiteRoot \o <<"/", "markets", "/", "currencies", "/", "ideas", "/", "?sort=recent">>

\* ------------------------------------------------------------ scraper.py: http_get

\* the largest MAX_RETRIES the model configures
MaxRetries == 2

NoErr == [kind |-> "none", status |-> 0, url |-> <<>>]
\* RuntimeError(f"HTTP {status} for {url}") and the exception requests.get raised
HttpErr(status, url) == [kind |-> "http", status |-> status, url |-> url]
TransportErr(url) == [kind |-> "transport", status |-> 0, url |-> url]
\* what `raise None` raises
RaiseNoneErr == [kind |-> "TypeError", status |-> 0, url |-> <<>>]

\* One call of http_get.  attempt is the loop variable of the next iteration,
\* requests counts the GETs issued, sleeps lists the delays slept, okAt is the
\* request that was answered 2xx (0: none) and okBody what it carried.
NoPage == <<[kind |-> "none", j |-> JNull]>>
IdleCall == [state |-> "idle", url |-> <<>>, attempt |-> 0, last_err |-> NoErr, requests |-> 0,
             sleeps |-> <<>>, okAt |-> 0, okBody |-> NoPage, body |-> NoPage, err |-> NoErr]
\* NewCall whose loop starts at 0: range(0, MAX_RETRIES + 1)
NewCall_from_zero(url) == [IdleCall EXCEPT !.state = "run", !.url = url, !.attempt = 0]

NewCall(url) == [IdleCall EXCEPT !.state = "run", !.url = url, !.attempt = 1]

\* what one requests.get can do: answer with a status and a body, or raise
StatusCodes == {200, 299, 300}
Responses(bodies) ==
    {[kind |-> "resp", status |-> st, body |-> bd] : st \in StatusCodes, bd \in bodies}
    \cup {[kind |-> "exc", status |-> 0, body |-> NoPage]}

\* http_get_attempt without the `return` of a 2xx answer: the loop goes on
http_get_attempt_no_return(c, R, o) ==
    LET sent == [c EXCEPT !.requests = c.requests + 1, !.attempt = c.attempt + 1] IN
    IF o.kind = "resp" /\ 200 <= o.status /\ o.status < 300
    THEN [sent EXCEPT !.body = o.body, !.okAt = sent.requests, !.okBody = o.body]
    ELSE [sent EXCEPT !.last_err = IF o.kind = "resp" THEN HttpErr(o.status, c.url)
                                   ELSE TransportErr(c.url)]

\* http_get_attempt that sleeps after every failed attempt, the last included
http_get_attempt_sleep_always(c, R, o) ==
    LET sent == [c EXCEPT !.requests = c.requests + 1] IN
    IF o.kind = "resp" /\ 200 <= o.status /\ o.status < 300
    THEN [sent EXCEPT !.state = "returned", !.body = o.body,
                      !.okAt = sent.requests, !.okBody = o.body]
    ELSE [sent EXCEPT !.last_err = IF o.kind = "resp" THEN HttpErr(o.status, c.url)
                                   ELSE TransportErr(c.url),
                      !.attempt = c.attempt + 1,
                      !.sleeps = Append(c.sleeps, RETRY_BACKOFF_SECS * c.attempt)]

\* one iteration of the for loop, o being what requests.get did
http_get_attempt(c, R, o) ==
    LET sent == [c EXCEPT !.requests = c.requests + 1] IN
    IF o.kind = "resp" /\ 200 <= o.status /\ o.status < 300
    THEN [sent EXCEPT !.state = "returned", !.body = o.body,
                      !.okAt = sent.requests, !.okBody = o.body]
    ELSE LET failed == [sent EXCEPT !.last_err = IF o.kind = "resp" THEN HttpErr(o.status, c.url)
                                                 ELSE TransportErr(c.url),
                                    !.attempt = c.attempt + 1]
         IN  IF c.attempt < R
             THEN [failed EXCEPT !.sleeps = Append(c.sleeps, RETRY_BACKOFF_SECS * c.attempt)]
             ELSE failed

\* `raise last_err` after the loop
http_get_raise(c) ==
    [c EXCEPT !.state = "raised",
              !.err = IF c.last_err = NoErr THEN RaiseNoneErr ELSE c.last_err]

\* ------------------------------------------------------------ state

VARIABLES
    pc,            \* where the running program is
    html, parsed,  \* the page given to parse_detail_page and what it returned
    MAX_RETRIES,   \* settings.MAX_RETRIES, read from the environment
    store,         \* the committed charts table
    tx,            \* the table as the open transaction sees it
    clock,         \* the time
    txstart,       \* the time at which the open transaction began
    listing_html,  \* what the listing URL serves
    items, idx,    \* the parsed listing and the position of the for loop in it
    stats,         \* RunStats
    call,          \* the running http_get call
    store0,        \* the committed table when the run began
    hist,          \* how the runs so far ended, oldest first
    BATCH_SIZE, ONLY_DRY_RUN,  \* the backfill's settings, read from the environment
    rows,          \* the batch the backfill selected
    counts,        \* the backfill's counters updated and skipped
    log,           \* the line the backfill printed for each row handled, in order
    sql,           \* the writes scraper.main, or the db.py functions run alone, executed so far
    site,          \* what the site answers for each row's detail URL, where that is fixed
    net            \* the requests issued and the detail pages fetched since the run began,
                   \* in the specifications that count them

bfvars == <<BATCH_SIZE, ONLY_DRY_RUN, rows, counts, log, site>>
crawlvars == <<html, parsed, listing_html, items, stats, sql>>

vars == <<pc, html, parsed, MAX_RETRIES, store, tx, clock, txstart, listing_html,
          items, idx, stats, call, store0, hist, BATCH_SIZE, ONLY_DRY_RUN, rows, counts, log,
          sql, site, net>>

ZeroCounts == [updated |-> 0, skipped |-> 0]
BfUnused ==
    /\ BATCH_SIZE = 0 /\ ONLY_DRY_RUN = FALSE
    /\ rows = <<>> /\ counts = ZeroCounts /\ log = <<>>
    /\ site = <<>>

\* the counters of a run: off, and at the start of a run that counts
Uncounted == [on |-> FALSE, reqs |-> 0, fetched |-> 0]
ZeroNet == [on |-> TRUE, reqs |-> 0, fetched |-> 0]
\* the counters after one requests.get of the call c, now in the state c is in;
\* detail tells whether the call fetches a detail page for scraper.main
Counted(n, c, detail) ==
    IF ~n.on THEN n
    ELSE [n EXCEPT !.reqs = @ + 1,
                   !.fetched = @ + (IF detail /\ c.state = "returned" THEN 1 ELSE 0)]

EmptyTable == [u \in {} |-> JNull]
ZeroStats == [new |-> 0, skipped |-> 0]

\* ------------------------------------------------------------ extraction alone

\* payloads without a symbol-level price scale whose content holds up to
\* MaxSources + 1 sources, shared between the two paths in every way
SeriesSources ==
    { Src(JStr(<<"MainSeries">>), JDict(<<E("pricescale", JInt(5))>>), JAbsent),
      Src(JStr(<<"MainSeries">>), JAbsent, JAbsent),
      Src(JStr(<<"LineTool", "TrendLine">>), JDict(<<E("color", JInt(1))>>), JDict(<<E("pricescale", JInt(7))>>)),
      Src(JStr(<<"linetool">>), JDict(<<E("pricescale", JInt(8))>>), JAbsent) }
SeriesPages ==
    UNION { { PageOf("top", Idea(JAbsent, JAbsent,
                                 BothContent(SubSeq(q, 1, k), SubSeq(q, k + 1, Len(q))))) :
                k \in 0..Len(q) } :
            q \in SeqsUpTo(SeriesSources, MaxSources + 1) }

\* pages of up to MaxFrags fragments that keep, at several depths, a payload,
\* a string or a null under the key
MaxFrags == 3
Payload1 == Idea(JAbsent, JAbsent, JAbsent)
Payload2 == JDict(<<E("name", JStr(<<"other">>))>>)
KeyOf(v) == JDict(<<E("ssrIdeaData", v)>>)
SampleFrags ==
    { FragEmpty, FragInvalid,
      Frag(KeyOf(Payload1)), Frag(KeyOf(JStr(<<"x">>))), Frag(KeyOf(JNull)),
      Frag(JList(<<KeyOf(JNull), KeyOf(Payload2)>>)),
      Frag(JDict(<<E("a", KeyOf(JStr(<<"x">>))), E("b", KeyOf(Payload1))>>)),
      Frag(JDict(<<E("ssrIdeaData", JNull), E("a", KeyOf(Payload2))>>)),
      Frag(JDict(<<E("a", KeyOf(Payload1)), E("ssrIdeaData", Payload2)>>)),
      Frag(JDict(<<E("other", JInt(1))>>)),
      Frag(JList(<<JInt(1), JDict(<<E("props", KeyOf(Payload1))>>)>>)),
      Frag(JDict(<<E("a", JDict(<<E("ssrIdeaData", JNull), E("b", KeyOf(Payload1))>>)),
                   E("c", KeyOf(Payload2))>>)) }

\* the anchors a generated listing page may hold, each with the identifier and
\* the symbol its reference carries (uuid <<>>: the reference names no idea)
MaxListing == 3
ListingCases ==
    { [href |-> <<"/", "chart", "/", "EURUSD", "/", "u1", "-", "eurusd", "-", "long", "/">>,
       uuid |-> <<"u1">>, symbol |-> <<"EURUSD">>],
      [href |-> <<"/", "chart", "/", "EURUSD", "/", "u2", "/">>,
       uuid |-> <<"u2">>, symbol |-> <<"EURUSD">>],
      [href |-> <<"https:", "/", "/", "www.tradingview.com", "/", "chart", "/", "GBPUSD", "/", "u3", "-", "x", "/">>,
       uuid |-> <<"u3">>, symbol |-> <<"GBPUSD">>],
      [href |-> <<"/", "chart", "/", "EURUSD", "/", "u1", "/">>,
       uuid |-> <<"u1">>, symbol |-> <<"EURUSD">>],
      [href |-> <<"/", "chart", "/", "GBPUSD", "/", "u1", "-", "again", "/">>,
       uuid |-> <<"u1">>, symbol |-> <<"GBPUSD">>],
      [href |-> <<"/", "ideas", "/", "EURUSD", "/", "u4", "/">>, uuid |-> <<>>, symbol |-> <<>>],
      [href |-> <<"/", "chart", "/", "EURUSD", "/">>, uuid |-> <<>>, symbol |-> <<>>] }
ListingHrefs == {a.href : a \in ListingCases}

\* the script fragments a generated listing page may embed: none, or a list of
\* ideas with an identifier and a path each
ListingScripts ==
    { <<>>,
      <<Frag(JDict(<<E("ideas", JList(<<
            JDict(<<E("id", JStr(<<"u5">>)),
                    E("chart_url", JStr(<<"/", "chart", "/", "EURUSD", "/", "u5", "/">>))>>)>>))>>))>> }

\* A run of SpecParse parses one page: a detail page (its script fragments are
\* html) or a listing page (its script fragments are html, the references of
\* its anchors are listing_html).
InitParse ==
    /\ \/ /\ pc = "parse_input"
          /\ \/ html \in NoIdeaPages
             \/ \E w \in Wrappers, sy \in SymbolVals, us \in UserVals, co \in ContentVals :
                   html = PageOf(w, Idea(sy, us, co))
             \/ html \in SeriesPages
             \/ html \in SeqsUpTo(SampleFrags, MaxFrags)
          /\ listing_html = <<>>
       \/ /\ pc = "listing_input"
          /\ html \in ListingScripts
          /\ listing_html \in SeqsUpTo(ListingHrefs, MaxListing)
    /\ parsed = JNull
    /\ MAX_RETRIES = 0
    /\ store = EmptyTable /\ tx = EmptyTable /\ store0 = EmptyTable
    /\ clock = 0 /\ txstart = 0
    /\ items = <<>> /\ idx = 0
    /\ stats = ZeroStats /\ call = IdleCall /\ hist = <<>> /\ sql = <<>> /\ net = Uncounted
    /\ BfUnused

ParseDetail ==
    /\ pc = "parse_input"
    /\ parsed' = parse_detail_page(html)
    /\ pc' = "parse_done"
    /\ UNCHANGED <<html, MAX_RETRIES, store, tx, clock, txstart, listing_html,
                   items, idx, stats, call, store0, hist>>
    /\ UNCHANGED <<bfvars, sql>>
    /\ UNCHANGED net

\* parse_listing_for_uuids_and_links reads the anchors of the page and nothing else
ParseListing ==
    /\ pc = "listing_input"
    /\ items' = parse_listing_for_uuids_and_links(listing_html)
    /\ pc' = "listing_done"
    /\ UNCHANGED <<html, parsed, MAX_RETRIES, store, tx, clock, txstart, listing_html,
                   idx, stats, call, store0, hist>>
    /\ UNCHANGED <<bfvars, sql>>
    /\ UNCHANGED net

NextParse == ParseDetail \/ ParseListing

SpecParse == InitParse /\ [][NextParse]_vars

\* ------------------------------------------------------------ scraper.py: main

\* the runs a behaviour holds, and the anchors a listing page holds
MaxRuns == 2
MaxAnchors == 2

SampleHrefs ==
    { <<"/", "chart", "/", "EURUSD", "/", "u1", "-", "eurusd", "-", "long", "/">>,
      <<"/", "chart", "/", "EURUSD", "/", "u2", "/">>,
      <<"https:", "/", "/", "www.tradingview.com", "/", "chart", "/", "GBPUSD", "/", "u3", "-", "x", "/">>,
      <<"/", "chart", "/", "EURUSD", "/", "u1", "/">> }

\* the detail pages the site serves: a payload with a price scale, a payload
\* without, a payload whose symbol is a string
CrawlPages ==
    { PageOf("top", Idea(JDict(<<E("short_name", JStr(<<"EURUSD">>)), E("pricescale", JInt(100))>>),
                         JDict(<<E("username", JStr(<<"alice">>))>>), JAbsent)),
      PageOf("top", Idea(JDict(<<E("short_name", JStr(<<"EURUSD">>))>>), JAbsent, JAbsent)),
      PageOf("top", Idea(JStr(<<"EURUSD">>), JAbsent, JAbsent)) }

\* the rows an earlier crawl left for uuids of the listing
OldRow == upsert_full_record(EmptyTable, <<"u2">>, NullRecord, 0, 0)[<<"u2">>]
InitialTables ==
    { EmptyTable, [u \in {<<"u2">>} |-> OldRow], [u \in {<<"u3">>, <<"u9">>} |-> OldRow] }

InitCrawl ==
    /\ pc = "idle"
    /\ html = <<>> /\ parsed = JNull
    /\ MAX_RETRIES \in 0..MaxRetries
    /\ store \in InitialTables
    /\ tx = store /\ store0 = store
    /\ clock = 1 /\ txstart = 0
    /\ listing_html \in SeqsUpTo(SampleHrefs, MaxAnchors)
    /\ items = <<>> /\ idx = 0
    /\ stats = ZeroStats /\ call = IdleCall /\ hist = <<>> /\ sql = <<>> /\ net = Uncounted
    /\ BfUnused

\* main() up to the first http_get: engine.begin() opens the transaction.
\* The _debug_* helpers print and write files only (DEBUG_HTML, whose assignment
\* is not part of scraper.py as given, is taken to be a flag): they touch none of
\* the state below and are left out.
RunBegins ==
    /\ pc' = "fetch_listing"
    /\ tx' = store /\ store0' = store
    /\ txstart' = clock /\ clock' = clock + 1
    /\ stats' = ZeroStats
    /\ items' = <<>> /\ idx' = 0
    /\ call' = NewCall(RECENT_CURRENCIES_URL)
    /\ sql' = <<>>
    /\ UNCHANGED <<html, parsed, MAX_RETRIES, store, listing_html, hist>>
    /\ UNCHANGED bfvars
    /\ net' = [net EXCEPT !.reqs = 0, !.fetched = 0]

\* the first run, or the run after one that ended
StartRun ==
    /\ pc \in {"idle", "done", "aborted"}
    /\ Len(hist) < MaxRuns
    /\ RunBegins

\* the bodies the URL of the running call can answer with
BodiesNow == IF pc = "fetch_listing" THEN {listing_html} ELSE CrawlPages

HttpAttempt ==
    /\ pc \in {"fetch_listing", "fetch_detail"}
    /\ call.state = "run" /\ call.attempt <= MAX_RETRIES
    /\ \E o \in Responses(BodiesNow) : call' = http_get_attempt(call, MAX_RETRIES, o)
    /\ UNCHANGED <<pc, html, parsed, MAX_RETRIES, store, tx, clock, txstart, listing_html,
                   items, idx, stats, store0, hist>>
    /\ UNCHANGED <<bfvars, sql>>
    /\ net' = Counted(net, call', pc = "fetch_detail")

HttpExhausted ==
    /\ pc \in {"fetch_listing", "fetch_detail"}
    /\ call.state = "run" /\ call.attempt > MAX_RETRIES
    /\ call' = http_get_raise(call)
    /\ UNCHANGED <<pc, html, parsed, MAX_RETRIES, store, tx, clock, txstart, listing_html,
                   items, idx, stats, store0, hist>>
    /\ UNCHANGED <<bfvars, sql>>
    /\ UNCHANGED net

\* an exception leaves the `with engine.begin()` block: the transaction is rolled back
Abort(why) ==
    /\ pc' = "aborted"
    /\ tx' = store
    /\ hist' = Append(hist, why)
    /\ call' = IdleCall
    /\ UNCHANGED <<html, parsed, MAX_RETRIES, store, clock, txstart, listing_html,
                   items, idx, stats, store0>>
    /\ UNCHANGED <<bfvars, sql>>
    /\ UNCHANGED net

FetchFailed ==
    /\ pc \in {"fetch_listing", "fetch_detail"}
    /\ call.state = "raised"
    /\ Abort("fetch exhausted")

\* lines 88-94 for the items its that parse_listing_for_uuids_and_links returned
ListingParsed(its) ==
    /\ items' = its
    /\ idx' = 1
    /\ pc' = "loop"
    /\ call' = IdleCall
    /\ UNCHANGED <<html, parsed, MAX_RETRIES, store, tx, clock, txstart, listing_html,
                   stats, store0, hist>>
    /\ UNCHANGED <<bfvars, sql>>
    /\ UNCHANGED net

ListingFetched ==
    /\ pc = "fetch_listing" /\ call.state = "returned"
    /\ ListingParsed(parse_listing_for_uuids_and_links(call.body))

\* after_known with `continue` in the place of `break`
after_known_continue(i) == [pc |-> "loop", idx |-> i + 1]

\* where the for loop stands after an item at position i that has_uuid reports
\* known: `break` leaves the loop for session.commit()
after_known(i) == [pc |-> "commit", idx |-> i]

\* the head of the for loop: a known item ends the loop, an unknown one is fetched
LoopItem ==
    /\ pc = "loop" /\ idx <= Len(items)
    /\ IF has_uuid(tx, items[idx].uuid)
       THEN /\ stats' = [stats EXCEPT !.skipped = stats.skipped + 1]
            /\ pc' = after_known(idx).pc
            /\ idx' = after_known(idx).idx
            /\ UNCHANGED call
       ELSE /\ call' = NewCall(items[idx].url)
            /\ pc' = "fetch_detail"
            /\ UNCHANGED <<stats, idx>>
    /\ UNCHANGED <<html, parsed, MAX_RETRIES, store, tx, clock, txstart, listing_html,
                   items, store0, hist>>
    /\ UNCHANGED <<bfvars, sql>>
    /\ UNCHANGED net

LoopEnd ==
    /\ pc = "loop" /\ idx > Len(items)
    /\ pc' = "commit"
    /\ UNCHANGED <<html, parsed, MAX_RETRIES, store, tx, clock, txstart, listing_html,
                   items, idx, stats, call, store0, hist>>
    /\ UNCHANGED <<bfvars, sql>>
    /\ UNCHANGED net

\* lines 113-129 for the record rec that parse_detail_page returned
DetailStored(rec) ==
    /\ tx' = upsert_full_record(tx, items[idx].uuid, rec, clock, txstart)
    /\ sql' = Append(sql, SqlUpsert(items[idx].uuid))
    /\ clock' = clock + 1
    /\ stats' = [stats EXCEPT !.new = stats.new + 1]
    /\ idx' = idx + 1
    /\ pc' = "loop"
    /\ call' = IdleCall
    /\ UNCHANGED <<html, parsed, MAX_RETRIES, store, txstart, listing_html, items, store0, hist>>
    /\ UNCHANGED bfvars
    /\ UNCHANGED net

DetailFetched ==
    /\ pc = "fetch_detail" /\ call.state = "returned"
    /\ parse_detail_page(call.body) # JRaise
    /\ DetailStored(parse_detail_page(call.body))

\* parse_detail_page raised: the exception leaves main
DetailRaised ==
    /\ pc = "fetch_detail" /\ call.state = "returned"
    /\ parse_detail_page(call.body) = JRaise
    /\ Abort("parse raised")

\* session.commit() and the exit of the `with engine.begin()` block
Commit ==
    /\ pc = "commit"
    /\ store' = tx
    /\ pc' = "done"
    /\ hist' = Append(hist, "committed")
    /\ UNCHANGED <<html, parsed, MAX_RETRIES, tx, clock, txstart, listing_html,
                   items, idx, stats, call, store0>>
    /\ UNCHANGED <<bfvars, sql>>
    /\ UNCHANGED net

Next ==
    \/ StartRun \/ HttpAttempt \/ HttpExhausted \/ FetchFailed \/ ListingFetched
    \/ LoopItem \/ LoopEnd \/ DetailFetched \/ DetailRaised \/ Commit

Spec == InitCrawl /\ [][Next]_vars

\* ------------------------------------------------------------ backfill_pricescale.py

\* the largest BATCH_SIZE the model configures, and the backfill runs a behaviour holds
MaxBatch == 2
MaxBackfillRuns == 1

\* data ->> key of PostgreSQL: SQL NULL for a NULL column, a missing key or a
\* JSON null, else the value as text
JsonText(data, key) ==
    IF ~IsDict(data) \/ ~HasKey(data, key) \/ Lookup(data, key) = JNull THEN JNull
    ELSE IF IsStr(Lookup(data, key)) THEN JStr(Lookup(data, key).s)
    ELSE JStr(<<"json-text">>)

\* jsonb_set(data, '{pricescale}', to_jsonb(ps), true): NULL for NULL data, the
\* object with the key replaced or added; JRaise where PostgreSQL raises
RECURSIVE ReplaceKey(_, _, _)
ReplaceKey(es, key, val) ==
    IF es = <<>> THEN <<>>
    ELSE <<IF Head(es).k = key THEN E(key, val) ELSE Head(es)>> \o ReplaceKey(Tail(es), key, val)
jsonb_set(data, key, val) ==
    IF data = JNull THEN JNull
    ELSE IF ~IsDict(data) THEN JRaise
    ELSE IF HasKey(data, key) THEN JDict(ReplaceKey(data.e, key, val))
    ELSE JDict(Append(data.e, E(key, val)))

\* a patch that stores a fresh payload holding the price scale alone
bf_update_overwrite(session, uuid, ps, now_epoch) ==
    [session EXCEPT ![uuid] = [@ EXCEPT !.data = JDict(<<E("pricescale", ps)>>),
                                        !.scraped_at = JInt(now_epoch)]]

\* the update statement of lines 97-102
bf_update(session, uuid, ps, now_epoch) ==
    [session EXCEPT ![uuid] = [@ EXCEPT !.data = jsonb_set(@, "pricescale", ps),
                                        !.scraped_at = JInt(now_epoch)]]

StartsWithHttp(text) == text # <<>> /\ Head(text) \in {"http:", "https:"}

pick_detail_url(chart_url, symbol, uuid) ==
    IF Truthy(chart_url) /\ IsStr(chart_url) /\ StartsWith(chart_url.s, "/")
        THEN SiteRoot \o chart_url.s
    ELSE IF Truthy(chart_url) /\ IsStr(chart_url) /\ StartsWithHttp(chart_url.s)
        THEN chart_url.s
    ELSE SiteRoot \o <<"/", "chart", "/">> \o PyOr(symbol, JStr(<<"NONE">>)).s \o <<"/">> \o uuid

\* the rows the select statement may return: the rows whose pricescale is null,
\* oldest first_seen_at first, at most lim of them; rows of equal first_seen_at
\* come in any order
Missing(session) == {u \in DOMAIN session : JsonText(session[u].data, "pricescale") = JNull}
SelectedRow(session, u) ==
    [uuid |-> u, symbol |-> session[u].symbol, chart_url |-> JsonText(session[u].data, "chart_url")]
\* SelectOrders with the order reversed: the newest rows first
SelectOrders_newest_first(session, lim) ==
    LET cand == Missing(session)
        n == Min(lim, Cardinality(cand))
        seen(u) == session[u].first_seen_at.n
    IN  { q \in [1..n -> cand] :
            /\ \A i, j \in 1..n : i < j => q[i] # q[j] /\ seen(q[i]) >= seen(q[j])
            /\ \A u \in cand : (\A i \in 1..n : q[i] # u) => \A i \in 1..n : seen(q[i]) >= seen(u) }

SelectOrders(session, lim) ==
    LET cand == Missing(session)
        n == Min(lim, Cardinality(cand))
        seen(u) == session[u].first_seen_at.n
    IN  { q \in [1..n -> cand] :
            /\ \A i, j \in 1..n : i < j => q[i] # q[j] /\ seen(q[i]) <= seen(q[j])
            /\ \A u \in cand : (\A i \in 1..n : q[i] # u) => \A i \in 1..n : seen(q[i]) <= seen(u) }

\* http_get of backfill_pricescale.py, one iteration of its loop
bf_http_get_attempt(c, R, o) ==
    LET sent == [c EXCEPT !.requests = c.requests + 1] IN
    IF o.kind = "resp" /\ 200 <= o.status /\ o.status < 300
    THEN [sent EXCEPT !.state = "returned", !.body = o.body,
                      !.okAt = sent.requests, !.okBody = o.body]
    ELSE LET failed == [sent EXCEPT !.last_err = IF o.kind = "resp" THEN HttpErr(o.status, c.url)
                                                 ELSE TransportErr(c.url),
                                    !.attempt = c.attempt + 1]
         IN  IF c.attempt < R
             THEN [failed EXCEPT !.sleeps = Append(c.sleeps, RETRY_BACKOFF_SECS * c.attempt)]
             ELSE failed

bf_http_get_raise(c) ==
    [c EXCEPT !.state = "raised",
              !.err = IF c.last_err = NoErr THEN RaiseNoneErr ELSE c.last_err]

\* ps = (parsed.get("data") or {}).get("pricescale")
ResolvedPs(rec) == IF rec = JRaise THEN JRaise ELSE PyGet(PyOr(PyGet(rec, "data"), EmptyDict), "pricescale")

\* bf_classify that forgets the dry-run flag
bf_classify_no_dry(ps, dry) ==
    IF ps = JRaise THEN "ERR" ELSE IF ps = JNull THEN "MISS" ELSE "SET"

\* the branch the loop body takes for a row, named by the line it prints
bf_classify(ps, dry) ==
    IF ps = JRaise THEN "ERR"
    ELSE IF ps = JNull THEN "MISS"
    ELSE IF dry THEN "DRY"
    ELSE "SET"

\* the counters after a row that took the branch tag
bf_count(c, tag) ==
    IF tag \in {"ERR", "MISS"} THEN [c EXCEPT !.skipped = c.skipped + 1]
    ELSE [c EXCEPT !.updated = c.updated + 1]

\* bf_after_row without the try/except: the exception leaves main
bf_after_row_uncaught(tag) == IF tag = "ERR" THEN "bf_aborted" ELSE "bf_row"

\* where main stands after a row: every branch goes on with the next row
bf_after_row(tag) == "bf_row"

\* the tables a backfill can find: each uuid absent, first seen only, or
\* upserted by a crawl from one of the pages that parse
BfUuids == {<<"u1">>, <<"u2">>, <<"u3">>}
SeenAt(u) == IF u = <<"u3">> THEN 1 ELSE 0
GoodPages == {pg \in CrawlPages : parse_detail_page(pg) # JRaise}
RowChoices(u) ==
    {insert_first_seen(EmptyTable, u, <<"currencies_recent">>, SeenAt(u))[u]}
    \cup {upsert_full_record(EmptyTable, u, parse_detail_page(pg), 1, SeenAt(u))[u] : pg \in GoodPages}

InitBackfill ==
    /\ pc = "bf_idle"
    /\ html = <<>> /\ parsed = JNull
    /\ MAX_RETRIES \in 0..MaxRetries
    /\ \E present \in SUBSET BfUuids :
         store \in [present -> UNION {RowChoices(u) : u \in BfUuids}]
    /\ \A u \in DOMAIN store : store[u] \in RowChoices(u)
    /\ tx = store /\ store0 = store
    /\ clock = 2 /\ txstart = 0
    /\ listing_html = <<>> /\ items = <<>> /\ idx = 0
    /\ stats = ZeroStats /\ call = IdleCall /\ hist = <<>> /\ sql = <<>> /\ net = Uncounted
    /\ BATCH_SIZE \in 1..MaxBatch /\ ONLY_DRY_RUN \in BOOLEAN
    /\ rows = <<>> /\ counts = ZeroCounts /\ log = <<>>
    /\ site = <<>>

\* main() up to the for loop: the select, and the early return of an empty batch
BfStart ==
    /\ pc \in {"bf_idle", "bf_done"}
    /\ Len(hist) < MaxBackfillRuns
    /\ tx' = store /\ store0' = store
    /\ txstart' = clock /\ clock' = clock + 1
    /\ \E q \in SelectOrders(store, BATCH_SIZE) :
         rows' = [i \in 1..Len(q) |-> SelectedRow(store, q[i])]
    /\ idx' = 1
    /\ counts' = ZeroCounts /\ log' = <<>>
    /\ pc' = "bf_row"
    /\ UNCHANGED <<MAX_RETRIES, store, call, hist, BATCH_SIZE, ONLY_DRY_RUN, site>>
    /\ UNCHANGED crawlvars
    /\ net' = [net EXCEPT !.reqs = 0, !.fetched = 0]

BfRow ==
    /\ pc = "bf_row" /\ idx <= Len(rows)
    /\ call' = NewCall(pick_detail_url(rows[idx].chart_url, rows[idx].symbol, rows[idx].uuid))
    /\ pc' = "bf_fetch"
    /\ UNCHANGED <<MAX_RETRIES, store, tx, clock, txstart, idx, store0, hist>>
    /\ UNCHANGED <<bfvars, crawlvars>>
    /\ UNCHANGED net

BfHttpAttempt ==
    /\ pc = "bf_fetch"
    /\ call.state = "run" /\ call.attempt <= MAX_RETRIES
    /\ \E o \in Responses(CrawlPages) : call' = bf_http_get_attempt(call, MAX_RETRIES, o)
    /\ UNCHANGED <<pc, MAX_RETRIES, store, tx, clock, txstart, idx, store0, hist>>
    /\ UNCHANGED <<bfvars, crawlvars>>
    /\ net' = Counted(net, call', FALSE)

BfHttpExhausted ==
    /\ pc = "bf_fetch"
    /\ call.state = "run" /\ call.attempt > MAX_RETRIES
    /\ call' = bf_http_get_raise(call)
    /\ UNCHANGED <<pc, MAX_RETRIES, store, tx, clock, txstart, idx, store0, hist>>
    /\ UNCHANGED <<bfvars, crawlvars>>
    /\ UNCHANGED net

\* the rest of the loop body for the row, ps being what the page resolved
\* (JRaise when http_get or parse_detail_page raised)
BfHandle(ps) ==
    LET tag == bf_classify(ps, ONLY_DRY_RUN)
        patched == bf_update(tx, rows[idx].uuid, ps, clock)
        \* PostgreSQL refusing the update is an exception like the others
        failed == tag = "SET" /\ patched[rows[idx].uuid].data = JRaise
        line == IF failed THEN "ERR" ELSE tag
    IN  /\ tx' = IF line = "SET" THEN patched ELSE tx
        /\ clock' = IF line = "SET" THEN clock + 1 ELSE clock
        /\ counts' = bf_count(counts, line)
        /\ log' = Append(log, [line |-> line, ps |-> ps])
        /\ pc' = bf_after_row(line)
        /\ idx' = idx + 1
        /\ call' = IdleCall
        /\ UNCHANGED <<MAX_RETRIES, store, txstart, store0, hist, BATCH_SIZE, ONLY_DRY_RUN, rows, site>>
        /\ UNCHANGED crawlvars
        /\ UNCHANGED net

BfFetched ==
    /\ pc = "bf_fetch" /\ call.state = "returned"
    /\ BfHandle(ResolvedPs(parse_detail_page(call.body)))

BfFetchFailed ==
    /\ pc = "bf_fetch" /\ call.state = "raised"
    /\ BfHandle(JRaise)

\* the end of the loop (or the empty batch): return 0 leaves the
\* `with engine.begin()` block, which commits
BfEnd ==
    /\ pc = "bf_row" /\ idx > Len(rows)
    /\ store' = tx
    /\ pc' = "bf_done"
    /\ hist' = Append(hist, "committed")
    /\ UNCHANGED <<MAX_RETRIES, tx, clock, txstart, idx, call, store0>>
    /\ UNCHANGED <<bfvars, crawlvars>>
    /\ UNCHANGED net

NextBackfill ==
    \/ BfStart \/ BfRow \/ BfHttpAttempt \/ BfHttpExhausted \/ BfFetched \/ BfFetchFailed \/ BfEnd

SpecBackfill == InitBackfill /\ [][NextBackfill]_vars

\* ------------------------------------------------------------ the backfill, run again and again

\* Backfill runs that write (DRY_RUN off) without end over a table that receives no new rows, the site
\* answering every request for a row's detail URL the same way.  Runs are not
\* counted (hist holds the last run alone) and the clock stops at MaxClock, so
\* that a run which changes nothing ends in the state it began in.
MaxClock == 4
Tick(t) == Min(t + 1, MaxClock)

\* the answers of the site: one of the detail pages, or no answer
SiteAnswers ==
    {o \in Responses(CrawlPages) : o.kind = "exc" \/ o.status = 200}

\* the rows a crawl wrote that lack a price scale (scraper.main writes a row
\* by upsert_full_record alone, so that every row has a payload)
RepeatRows(u) ==
    {r \in RowChoices(u) : IsDict(r.data) /\ JsonText(r.data, "pricescale") = JNull}

InitRepeat ==
    /\ pc = "bf_idle"
    /\ html = <<>> /\ parsed = JNull
    /\ MAX_RETRIES \in 0..1
    /\ \E present \in SUBSET BfUuids :
         /\ store \in [present -> UNION {RepeatRows(u) : u \in BfUuids}]
         /\ site \in [present -> SiteAnswers]
    /\ \A u \in DOMAIN store : store[u] \in RepeatRows(u)
    /\ tx = store /\ store0 = store
    /\ clock = 2 /\ txstart = 0
    /\ listing_html = <<>> /\ items = <<>> /\ idx = 0
    /\ stats = ZeroStats /\ call = IdleCall /\ hist = <<>> /\ sql = <<>> /\ net = Uncounted
    /\ BATCH_SIZE \in 1..MaxBatch /\ ONLY_DRY_RUN = FALSE
    /\ rows = <<>> /\ counts = ZeroCounts /\ log = <<>>

\* main() up to the for loop, of the first run or of the run after a finished one
RepStart ==
    /\ pc \in {"bf_idle", "bf_done"}
    /\ tx' = store /\ store0' = store
    /\ txstart' = clock /\ clock' = Tick(clock)
    /\ \E q \in SelectOrders(store, BATCH_SIZE) :
         rows' = [i \in 1..Len(q) |-> SelectedRow(store, q[i])]
    /\ idx' = 1
    /\ counts' = ZeroCounts /\ log' = <<>>
    /\ pc' = "bf_row"
    /\ UNCHANGED <<MAX_RETRIES, store, call, hist, BATCH_SIZE, ONLY_DRY_RUN, site>>
    /\ UNCHANGED crawlvars
    /\ net' = [net EXCEPT !.reqs = 0, !.fetched = 0]

\* one iteration of http_get's loop, answered as the site answers for the row
RepHttpAttempt ==
    /\ pc = "bf_fetch"
    /\ call.state = "run" /\ call.attempt <= MAX_RETRIES
    /\ call' = bf_http_get_attempt(call, MAX_RETRIES, site[rows[idx].uuid])
    /\ UNCHANGED <<pc, MAX_RETRIES, store, tx, clock, txstart, idx, store0, hist>>
    /\ UNCHANGED <<bfvars, crawlvars>>
    /\ net' = Counted(net, call', FALSE)

\* the rest of the loop body for the row (lines 83-107)
RepHandle(ps) ==
    LET tag == bf_classify(ps, ONLY_DRY_RUN)
        patched == bf_update(tx, rows[idx].uuid, ps, clock)
        failed == tag = "SET" /\ patched[rows[idx].uuid].data = JRaise
        line == IF failed THEN "ERR" ELSE tag
    IN  /\ tx' = IF line = "SET" THEN patched ELSE tx
        /\ clock' = IF line = "SET" THEN Tick(clock) ELSE clock
        /\ counts' = bf_count(counts, line)
        /\ log' = Append(log, [line |-> line, ps |-> ps])
        /\ pc' = bf_after_row(line)
        /\ idx' = idx + 1
        /\ call' = IdleCall
        /\ UNCHANGED <<MAX_RETRIES, store, txstart, store0, hist, BATCH_SIZE, ONLY_DRY_RUN, rows, site>>
        /\ UNCHANGED crawlvars
        /\ UNCHANGED net

RepFetched ==
    /\ pc = "bf_fetch" /\ call.state = "returned"
    /\ RepHandle(ResolvedPs(parse_detail_page(call.body)))

RepFetchFailed ==
    /\ pc = "bf_fetch" /\ call.state = "raised"
    /\ RepHandle(JRaise)

\* the end of the loop (or the empty batch): the `with` block commits
RepEnd ==
    /\ pc = "bf_row" /\ idx > Len(rows)
    /\ store' = tx
    /\ pc' = "bf_done"
    /\ hist' = <<"committed">>
    /\ UNCHANGED <<MAX_RETRIES, tx, clock, txstart, idx, call, store0>>
    /\ UNCHANGED <<bfvars, crawlvars>>
    /\ UNCHANGED net

NextRepeat ==
    \/ RepStart \/ BfRow \/ RepHttpAttempt \/ BfHttpExhausted \/ RepFetched \/ RepFetchFailed \/ RepEnd

\* a step that handles a fetched row, whatever its page resolved: within
\* NextRepeat these are the steps of RepFetched
RowFetchedStep ==
    /\ pc = "bf_fetch" /\ call.state = "returned"
    /\ \E ps \in {JNull, JRaise, JInt(100)} : RepHandle(ps)

\* the job is run again and again, and each run goes on to its end: main is
\* sequential code that never blocks but in requests.get, which times out
SpecRepeat ==
    /\ InitRepeat /\ [][NextRepeat]_vars
    /\ WF_vars(RepStart \/ BfRow \/ RepHttpAttempt \/ BfHttpExhausted \/ RepFetchFailed \/ RepEnd)
    /\ WF_vars(RowFetchedStep)

\* ------------------------------------------------------------ runs with their requests counted

\* One crawl run from the states Spec begins in, or a backfill of a table of
\* rows that lack a price scale, the requests of each run being counted in net.
InitRuns ==
    /\ html = <<>> /\ parsed = JNull
    /\ MAX_RETRIES \in 0..MaxRetries
    /\ items = <<>> /\ idx = 0
    /\ stats = ZeroStats /\ call = IdleCall /\ hist = <<>> /\ sql = <<>>
    /\ rows = <<>> /\ counts = ZeroCounts /\ log = <<>> /\ site = <<>>
    /\ net = ZeroNet /\ txstart = 0
    /\ \/ /\ pc = "idle"
          /\ store \in InitialTables
          /\ clock = 1
          /\ listing_html \in SeqsUpTo(SampleHrefs, MaxAnchors)
          /\ BATCH_SIZE = 0 /\ ONLY_DRY_RUN = FALSE
       \/ /\ pc = "bf_idle"
          /\ \E present \in SUBSET BfUuids :
               store \in [present -> UNION {RepeatRows(u) : u \in BfUuids}]
          /\ \A u \in DOMAIN store : store[u] \in RepeatRows(u)
          /\ clock = 2
          /\ listing_html = <<>>
          /\ BATCH_SIZE \in 1..MaxBatch /\ ONLY_DRY_RUN \in BOOLEAN
    /\ tx = store /\ store0 = store

OneRun == pc = "idle" /\ RunBegins

NextRuns ==
    \/ OneRun \/ HttpAttempt \/ HttpExhausted \/ FetchFailed \/ ListingFetched
    \/ LoopItem \/ LoopEnd \/ DetailFetched \/ DetailRaised \/ Commit
    \/ NextBackfill

\* The steps fairness is asked of where the code parses a page are stated
\* for fixed results of the parse: each is possible exactly where the step of the
\* code is, so that fairness of it says that the run does not stay there.
\* a step that goes on after a fetched detail page (DetailFetched, DetailRaised)
DetailStep ==
    /\ pc = "fetch_detail" /\ call.state = "returned"
    /\ Abort("parse raised") \/ DetailStored(NullRecord)

\* a step that goes on after the fetched listing page (ListingFetched)
ListingStep ==
    /\ pc = "fetch_listing" /\ call.state = "returned"
    /\ ListingParsed(<<>>)

\* a step that goes on after a fetched row of the backfill (BfFetched)
BfRowStep ==
    /\ pc = "bf_fetch" /\ call.state = "returned"
    /\ \E ps \in {JNull, JRaise, JInt(100)} : BfHandle(ps)

\* main is sequential code that never blocks but in requests.get, and every
\* requests.get returns or times out: a run that can take a step takes one
SpecRuns ==
    /\ InitRuns /\ [][NextRuns]_vars
    /\ WF_vars(OneRun \/ HttpAttempt \/ HttpExhausted \/ FetchFailed \/ LoopItem \/ LoopEnd \/ Commit)
    /\ WF_vars(ListingStep)
    /\ WF_vars(DetailStep)
    /\ WF_vars(BfStart \/ BfRow \/ BfHttpAttempt \/ BfHttpExhausted \/ BfFetchFailed \/ BfEnd)
    /\ WF_vars(BfRowStep)

\* ------------------------------------------------------------ http_get alone

\* One call of http_get, of scraper.py (pc = "fetch_detail") or of
\* backfill_pricescale.py (pc = "bf_fetch"), for a URL and a MAX_RETRIES of
\* 0..MaxRetries + 1; the call is followed to its return or its raise.
GetUrls == {RECENT_CURRENCIES_URL, SiteRoot \o <<"/", "chart", "/", "EURUSD", "/", "u1">>}

InitHttp ==
    /\ pc \in {"fetch_detail", "bf_fetch"}
    /\ html = <<>> /\ parsed = JNull
    /\ MAX_RETRIES \in 0..(MaxRetries + 1)
    /\ store = EmptyTable /\ tx = EmptyTable /\ store0 = EmptyTable
    /\ clock = 1 /\ txstart = 0
    /\ listing_html = <<>> /\ items = <<>> /\ idx = 0
    /\ stats = ZeroStats /\ hist = <<>> /\ sql = <<>> /\ net = Uncounted
    /\ \E url \in GetUrls : call = NewCall(url)
    /\ BfUnused

NextHttp == HttpAttempt \/ HttpExhausted \/ BfHttpAttempt \/ BfHttpExhausted

SpecHttp == InitHttp /\ [][NextHttp]_vars

\* ------------------------------------------------------------ the writes of db.py alone

\* Any sequence of the three writes that touch a row (insert_first_seen,
\* upsert_full_record, the backfill's update), each in a transaction of its own
\* that commits; MaxDbOps bounds the length of the sequence.
MaxDbOps == 3
DbUuids == {<<"u1">>, <<"u2">>}
DbPatches == {JInt(100), JInt(5)}

InitDb ==
    /\ pc = "db"
    /\ html = <<>> /\ parsed = JNull
    /\ MAX_RETRIES = 0
    /\ store = EmptyTable /\ tx = EmptyTable /\ store0 = EmptyTable
    /\ clock = 1 /\ txstart = 0
    /\ listing_html = <<>> /\ items = <<>> /\ idx = 0
    /\ stats = ZeroStats /\ call = IdleCall /\ hist = <<>> /\ sql = <<>> /\ net = Uncounted
    /\ BfUnused

\* the table after one write, the statement it executed being appended to sql
DbWrite(table, stmt) ==
    /\ pc = "db" /\ Len(sql) < MaxDbOps
    /\ tx' = table /\ store' = table
    /\ sql' = Append(sql, stmt)
    /\ txstart' = clock /\ clock' = clock + 1
    /\ UNCHANGED <<pc, html, parsed, MAX_RETRIES, listing_html, items, idx, stats, call,
                   store0, hist>>
    /\ UNCHANGED bfvars
    /\ UNCHANGED net

DbInsertFirstSeen ==
    \E u \in DbUuids :
        DbWrite(insert_first_seen(store, u, SOURCE_PAGE, clock),
                SqlInsertFirstSeen(u, SOURCE_PAGE))

DbUpsert ==
    \E u \in DbUuids, pg \in GoodPages :
        DbWrite(upsert_full_record(store, u, parse_detail_page(pg), clock, clock), SqlUpsert(u))

\* the update matches the row of the uuid, when there is one
DbPatch ==
    \E u \in DOMAIN store, ps \in DbPatches :
        DbWrite(bf_update(store, u, ps, clock), SqlUpdate(u))

NextDb == DbInsertFirstSeen \/ DbUpsert \/ DbPatch

SpecDb == InitDb /\ [][NextDb]_vars

\* ------------------------------------------------------------ claims

InListing(u) == \E i \in 1..Len(items) : items[i].uuid = u

\* the position of the first listing item that was known when the run began,
\* Len(items) + 1 when there is none
FirstKnown ==
    IF \E i \in 1..Len(items) : items[i].uuid \in DOMAIN store0
    THEN CHOOSE i \in 1..Len(items) :
            /\ items[i].uuid \in DOMAIN store0
            /\ \A j \in 1..(i - 1) : items[j].uuid \notin DOMAIN store0
    ELSE Len(items) + 1

RunPcs == {"fetch_listing", "fetch_detail", "loop", "commit"}

\* C2: a crawl run is all-or-nothing: while it runs and when it aborts the
\* committed table is the table before the run; a run aborts only when http_get
\* exhausted its retries, and otherwise ends in the one commit that makes all
\* its upserts visible.
C2_AllOrNothing ==
    /\ pc \in RunPcs \cup {"aborted"} => store = store0
    /\ pc = "done" => store = tx
    /\ pc = "aborted" => hist[Len(hist)] = "fetch exhausted"

C4_RetryBound ==
    /\ call.state = "raised" => call.requests = MAX_RETRIES /\ call.okAt = 0
    /\ call.state = "run" => call.okAt = 0 /\ call.requests = call.attempt - 1
    /\ call.okAt # 0 =>
          call.state = "returned" /\ call.requests = call.okAt /\ call.body = call.okBody
    /\ call.state = "returned" => call.okAt # 0

\* a call that raised after several failed requests
C4_Witness == call.state = "raised" /\ call.requests = MAX_RETRIES /\ MAX_RETRIES >= 2

\* C5: for every MAX_RETRIES >= 0, a call of http_get that raises raises the
\* error of its last failed attempt: the status and URL of the final response
\* or the exception of the final attempt.
C5_ErrorCarriesContext ==
    call.state = "raised" =>
        /\ call.err.kind \in {"http", "transport"}
        /\ call.err.url = call.url
        /\ call.err = call.last_err


\* the payload dict the page yields (JNull when it yields none)
TheIdea == FindIdea(html, JNull)
ResultPricescale == PyGet(PyGet(parsed, "data"), "pricescale")

\* C6: parse_detail_page never raises: whatever JSON values the page embeds,
\* it returns a record.
C6_NeverRaises == pc = "parse_done" => parsed # JRaise

\* the resolution C7 describes: the first of symbol.pricescale, symbol.price_scale
\* that is an integer, else the content-level result
C7_Resolution(idea) ==
    LET sym == PyOr(PyGet(idea, "symbol"), EmptyDict)
        sources == _iter_sources(PyGet(idea, "content"))
    IN  IF IsInt(PyGet(sym, "pricescale")) THEN PyGet(sym, "pricescale")
        ELSE IF IsInt(PyGet(sym, "price_scale")) THEN PyGet(sym, "price_scale")
        ELSE IF MainSeriesLoop(sources) # JNull THEN MainSeriesLoop(sources)
        ELSE FallbackLoop(sources)

\* C7: on every payload that is extracted, the price scale is the first integer
\* among symbol.pricescale, symbol.price_scale and the content-level candidates;
\* a non-integer symbol.pricescale is skipped and symbol.price_scale still
\* examined; the result is an integer or null.
C7_SymbolPrecedence ==
    (pc = "parse_done" /\ IsDict(TheIdea) /\ parsed # JRaise) =>
        /\ ResultPricescale = C7_Resolution(TheIdea)
        /\ IsInt(ResultPricescale) \/ ResultPricescale = JNull

BfPcs == {"bf_row", "bf_fetch", "bf_done"}
KeysOf(d) == {d.e[i].k : i \in 1..Len(d.e)}

\* the payloads a and b agree on every key but key
SameButKey(a, b, key) ==
    IF IsDict(a)
    THEN /\ IsDict(b)
         /\ \A k \in (KeysOf(a) \cup KeysOf(b)) \ {key} :
               HasKey(a, k) /\ HasKey(b, k) /\ Lookup(a, k) = Lookup(b, k)
    ELSE b = a

\* the rows the running backfill has patched
Patched == {rows[i].uuid : i \in {j \in 1..Len(log) : log[j].line = "SET"}}

PatchFrame(before, after) ==
    /\ DOMAIN after = DOMAIN before
    /\ \A u \in DOMAIN before :
         /\ u \notin Patched => after[u] = before[u]
         /\ \A c \in Columns \ {"data", "scraped_at"} : after[u][c] = before[u][c]
         /\ SameButKey(before[u].data, after[u].data, "pricescale")

\* C8: a backfill patch changes only the pricescale key of the patched row's
\* payload and its scraped_at: every other payload key, every other column of
\* the row and every other row are as they were before the run.
C8_PartialMerge ==
    pc \in BfPcs => PatchFrame(store0, tx) /\ PatchFrame(store0, store)

\* a committed patch of a row whose payload holds other, non-null keys
C8_Witness ==
    /\ pc = "bf_done"
    /\ \E u \in Patched :
         /\ IsDict(store0[u].data) /\ Lookup(store0[u].data, "name") # JNull
         /\ store[u].data # store0[u].data
         /\ store[u].scraped_at # store0[u].scraped_at

SkippedLines == {i \in 1..Len(log) : log[i].line \in {"ERR", "MISS"}}

\* C9: a row whose fetch or parse fails is counted as skipped and the loop goes
\* on with the next row: the run never aborts, and updated + skipped is the
\* number of rows handled, which at the end is the number of rows selected.
C9_FailureIsolation ==
    /\ pc # "bf_aborted"
    /\ pc \in {"bf_row", "bf_fetch"} =>
          Len(log) = idx - 1 /\ counts.updated + counts.skipped = idx - 1
    /\ pc = "bf_done" => counts.updated + counts.skipped = Len(rows)
    /\ pc \in BfPcs => counts.skipped = Cardinality(SkippedLines)

\* a finished batch whose first row failed and whose second row was updated
C9_Witness ==
    /\ pc = "bf_done" /\ Len(rows) = 2
    /\ log[1].line = "ERR" /\ log[2].line \in {"SET", "DRY"}

Resolving == {i \in 1..Len(log) : log[i].ps \notin {JNull, JRaise}}

\* C10: under the dry-run flag a backfill run writes nothing (the table, and
\* the transaction's view of it, stay as before the run), every row that
\* resolves a price scale is counted as updated and every other row as skipped.
C10_DryRun ==
    (ONLY_DRY_RUN /\ pc \in BfPcs) =>
        /\ tx = store0 /\ store = store0
        /\ counts.updated = Cardinality(Resolving)
        /\ counts.skipped = Len(log) - Cardinality(Resolving)

\* a finished dry run that counted a resolved row as updated and another as skipped
C10_Witness ==
    /\ ONLY_DRY_RUN /\ pc = "bf_done"
    /\ \E i, j \in 1..Len(log) : log[i].line = "DRY" /\ log[j].line = "MISS"

\* C11: once a row for an identifier exists, every write (insert_first_seen,
\* upsert_full_record, a backfill patch) leaves it in the table with the
\* first_seen_at it had.
C11_FirstSeenImmutable ==
    [][\A u \in DOMAIN store :
          u \in DOMAIN store' /\ store'[u].first_seen_at = store[u].first_seen_at]_vars

\* a row that was first seen, then upserted, then patched
C11_Witness ==
    /\ pc = "db" /\ Len(sql) = 3
    /\ \E u \in DOMAIN store :
         /\ sql = <<SqlInsertFirstSeen(u, SOURCE_PAGE), SqlUpsert(u), SqlUpdate(u)>>
         /\ store[u].first_seen_at = JInt(1)
         /\ store[u].scraped_at = JInt(3)
         /\ IsDict(store[u].data)

\* what the anchor at position k of the listing page carries
AnchorAt(k) == CHOOSE a \in ListingCases : a.href = listing_html[k]
\* the position of the first anchor of the page that carries the identifier u
FirstAnchorOf(u) ==
    CHOOSE k \in 1..Len(listing_html) :
        AnchorAt(k).uuid = u /\ \A m \in 1..(k - 1) : AnchorAt(m).uuid # u
ItemOfAnchor(a) ==
    [uuid |-> a.uuid, url |-> SiteRoot \o <<"/", "chart", "/">> \o a.symbol \o <<"/">> \o a.uuid]
AnchorIds == {AnchorAt(k).uuid : k \in 1..Len(listing_html)} \ {<<>>}

\* C12: the parsed listing holds each identifier of the page exactly once, as
\* the item of the first anchor that carries it, and the items are ordered by
\* those first anchors: a later anchor of the same identifier adds nothing and
\* moves nothing.
C12_ListingDedup ==
    pc = "listing_done" =>
        /\ \A i, j \in 1..Len(items) : i # j => items[i].uuid # items[j].uuid
        /\ {items[i].uuid : i \in 1..Len(items)} = AnchorIds
        /\ \A i \in 1..Len(items) :
              items[i] = ItemOfAnchor(AnchorAt(FirstAnchorOf(items[i].uuid)))
        /\ \A i, j \in 1..Len(items) :
              i < j => FirstAnchorOf(items[i].uuid) < FirstAnchorOf(items[j].uuid)

\* a page whose third anchor repeats, under another symbol, the identifier of
\* the first, with another identifier between them
C12_Witness ==
    /\ pc = "listing_done" /\ Len(listing_html) = 3 /\ Len(items) = 2
    /\ AnchorAt(1).uuid = AnchorAt(3).uuid /\ AnchorAt(1).symbol # AnchorAt(3).symbol
    /\ items[1] = ItemOfAnchor(AnchorAt(1)) /\ items[2] = ItemOfAnchor(AnchorAt(2))

\* d[k] when d is a dict holding k, l[0] when l is a non-empty list; else null
FieldOf(d, k) == IF IsDict(d) /\ HasKey(d, k) THEN Lookup(d, k) ELSE JNull
FirstOf(l) == IF IsList(l) /\ Len(l.e) > 0 THEN l.e[1].v ELSE JNull
EntriesOf(l) == IF IsList(l) THEN [k \in 1..Len(l.e) |-> l.e[k].v] ELSE <<>>

\* the content of the payload as a structure: a JSON text is decoded, a text
\* that is not JSON is no structure
ContentStructure ==
    LET content == FieldOf(TheIdea, "content") IN
    IF ~IsStr(content) THEN content
    ELSE IF Len(content.e) = 1 THEN content.e[1].v
    ELSE JNull

\* the entries of the panes->sources path followed by those of the
\* charts->panes->sources path
PathEntries ==
    EntriesOf(FieldOf(FirstOf(FieldOf(ContentStructure, "panes")), "sources"))
    \o EntriesOf(FieldOf(FirstOf(FieldOf(FirstOf(FieldOf(ContentStructure, "charts")), "panes")),
                         "sources"))

HasMarker(entry, marker) ==
    /\ IsDict(entry) /\ HasKey(entry, "type") /\ IsStr(Lookup(entry, "type"))
    /\ \E i \in 1..Len(Lookup(entry, "type").s) : Lookup(entry, "type").s[i] = marker

ResultElements == EntriesOf(FieldOf(FieldOf(parsed, "data"), "elements"))

\* C13: the elements of a returned record are the entries of both paths, panes
\* path first, that are dicts whose type is a string containing "LineTool", one
\* element per such entry in source order carrying its type, state, points and
\* indexes; no other entry yields an element and nothing is de-duplicated.
C13_ElementsFilter ==
    (pc = "parse_done" /\ IsDict(TheIdea) /\ parsed # JRaise) =>
        \E f \in [1..Len(ResultElements) -> 1..Len(PathEntries)] :
            /\ \A i, j \in 1..Len(ResultElements) : i < j => f[i] < f[j]
            /\ {f[i] : i \in 1..Len(ResultElements)}
                  = {k \in 1..Len(PathEntries) : HasMarker(PathEntries[k], "LineTool")}
            /\ \A i \in 1..Len(ResultElements) :
                  /\ IsDict(ResultElements[i])
                  /\ \A key \in {"type", "state", "points", "indexes"} :
                        FieldOf(ResultElements[i], key) = FieldOf(PathEntries[f[i]], key)

\* a record whose two elements come one from each path
C13_Witness ==
    /\ pc = "parse_done" /\ IsDict(TheIdea) /\ parsed # JRaise
    /\ Len(ResultElements) = 2 /\ Len(PathEntries) = 2
    /\ IsList(FieldOf(FirstOf(FieldOf(ContentStructure, "panes")), "sources"))
    /\ Len(FieldOf(FirstOf(FieldOf(ContentStructure, "panes")), "sources").e) = 1

TopLevelKeys == {"username", "symbol", "created_at", "interval", "direction", "data"}
PayloadKeys ==
    {"chart_url", "name", "webp_url", "updated_at", "likes_count", "comments_count", "views",
     "description_ast", "updates", "elements", "pricescale"}
\* the keys of the dict d, each of them once
HasExactlyKeys(d, keys) ==
    /\ IsDict(d) /\ KeysOf(d) = keys /\ Len(d.e) = Cardinality(keys)

\* C14: every record parse_detail_page returns, payload found or not, has the
\* same top-level keys and the same payload keys; when no fragment yields a
\* payload dict, every top-level field but data is null, every payload field
\* but elements is null and elements is the empty list.
C14_StableShape ==
    (pc = "parse_done" /\ parsed # JRaise) =>
        /\ HasExactlyKeys(parsed, TopLevelKeys)
        /\ HasExactlyKeys(Lookup(parsed, "data"), PayloadKeys)
        /\ ~IsDict(TheIdea) =>
              /\ \A k \in TopLevelKeys \ {"data"} : Lookup(parsed, k) = JNull
              /\ \A k \in PayloadKeys \ {"elements"} : Lookup(Lookup(parsed, "data"), k) = JNull
              /\ Lookup(Lookup(parsed, "data"), "elements") = JList(<<>>)

\* the record of a page whose only fragment holds a string under the key
C14_Witness ==
    /\ pc = "parse_done" /\ html # <<>> /\ html[1].kind = "json"
    /\ _deep_find(html[1].j, "ssrIdeaData") # JNull
    /\ ~IsDict(TheIdea)
    /\ HasExactlyKeys(parsed, TopLevelKeys)
    /\ Lookup(parsed, "symbol") = JNull

\* the items the structured-JSON strategy of the claim yields: one for every
\* element, holding an identifier and a path, of the array a fragment keeps
\* under "ideas", a path being made absolute
RECURSIVE IdeasItems(_)
IdeasItems(es) ==
    IF es = <<>> THEN <<>>
    ELSE LET id == FieldOf(Head(es), "id")
             path == FieldOf(Head(es), "chart_url")
         IN  (IF IsStr(id) /\ IsStr(path)
              THEN <<[uuid |-> id.s,
                      url |-> IF StartsWith(path.s, "/") THEN SiteRoot \o path.s ELSE path.s]>>
              ELSE <<>>) \o IdeasItems(Tail(es))
RECURSIVE StructuredItems(_)
StructuredItems(scripts) ==
    IF scripts = <<>> THEN <<>>
    ELSE (IF Head(scripts).kind = "json"
          THEN IdeasItems(EntriesOf(FieldOf(Head(scripts).j, "ideas")))
          ELSE <<>>) \o StructuredItems(Tail(scripts))

ItemIds == {items[i].uuid : i \in 1..Len(items)}

Least(S) == CHOOSE k \in S : \A j \in S : k <= j
\* the source dicts of the content: the dict entries of both paths, in order
ContentSources == SelectSeq(PathEntries, IsDict)
\* what holds the price-scale fields of a source: its state, its formattingDeps
StateOf(src) == FieldOf(src, "state")
FmtOf(src) == FieldOf(src, "formattingDeps")
\* a value on which .get raises: neither a dict nor a value `or {}` replaces
Ungettable(v) == ~IsDict(v) /\ Truthy(v)
\* what examining one source gives: an integer, null for none, JRaise
Examined(src) ==
    IF Ungettable(StateOf(src)) THEN JRaise
    ELSE IF IsInt(FieldOf(StateOf(src), "pricescale")) THEN FieldOf(StateOf(src), "pricescale")
    ELSE IF Ungettable(FmtOf(src)) THEN JRaise
    ELSE IF IsInt(FieldOf(FmtOf(src), "pricescale")) THEN FieldOf(FmtOf(src), "pricescale")
    ELSE JNull
\* the positions of the sources of type MainSeries, and of those that give something
SeriesAt == {k \in 1..Len(ContentSources) : HasMarker(ContentSources[k], "MainSeries")}
GivingAt == {k \in 1..Len(ContentSources) : Examined(ContentSources[k]) # JNull}
\* step (d): the first source, of any type, that gives something
AnySource == IF GivingAt = {} THEN JNull ELSE Examined(ContentSources[Least(GivingAt)])

\* the payload reaches the content level and neither symbol field is an integer
ContentLevel ==
    LET sym == FieldOf(TheIdea, "symbol") IN
    /\ pc = "parse_done" /\ IsDict(TheIdea)
    /\ ~Ungettable(sym)
    /\ ~IsInt(FieldOf(sym, "pricescale")) /\ ~IsInt(FieldOf(sym, "price_scale"))

\* C16 as stated: at content level the price scale of a returned record is the
\* integer of the first source of type MainSeries when that source has one,
\* else the first integer over all sources, else null.
C16_FirstMainSeriesOnly ==
    (ContentLevel /\ parsed # JRaise) =>
        ResultPricescale =
            IF SeriesAt # {} /\ Examined(ContentSources[Least(SeriesAt)]) # JNull
            THEN Examined(ContentSources[Least(SeriesAt)])
            ELSE AnySource

\* the resolution of the amended claim
EverySeriesThenAny ==
    IF SeriesAt \cap GivingAt # {} THEN Examined(ContentSources[Least(SeriesAt \cap GivingAt)])
    ELSE AnySource

\* C16 amended: at content level step (c) examines every source of type
\* MainSeries in order (state.pricescale, then formattingDeps.pricescale) and
\* the first integer found is the result; else step (d), the first integer over
\* all sources in order; else null.  A source whose state or formattingDeps is a
\* non-empty value that is not a dict makes the call raise when it is examined.
C16_EveryMainSeries ==
    ContentLevel =>
        /\ EverySeriesThenAny = JRaise => parsed = JRaise
        /\ parsed # JRaise => ResultPricescale = EverySeriesThenAny

\* a content whose first MainSeries source has no integer, whose second has
\* one, and where a source of another type with an integer comes before it
C16_Witness ==
    /\ ContentLevel /\ parsed # JRaise
    /\ \E a, b, c \in 1..Len(ContentSources) :
          /\ a < c /\ b < c
          /\ a \in SeriesAt /\ a = Least(SeriesAt) /\ a \notin GivingAt
          /\ b \in GivingAt /\ b = Least(GivingAt) /\ b \notin SeriesAt
          /\ c \in SeriesAt \cap GivingAt
          /\ ResultPricescale = Examined(ContentSources[c])
          /\ ResultPricescale # Examined(ContentSources[b])

\* the attempts of the call that have failed
FailedAttempts == call.requests - (IF call.okAt # 0 THEN 1 ELSE 0)

\* C17: http_get has slept once after each failed attempt k < MAX_RETRIES, for
\* RETRY_BACKOFF_SECS * k, and never after the last attempt or after an attempt
\* that succeeded: a call that raised after MAX_RETRIES >= 1 failures has slept
\* MAX_RETRIES - 1 times, for base * 1, ..., base * (MAX_RETRIES - 1) in order.
C17_BackoffSchedule ==
    /\ Len(call.sleeps) = IF MAX_RETRIES = 0 THEN 0 ELSE Min(FailedAttempts, MAX_RETRIES - 1)
    /\ \A k \in 1..Len(call.sleeps) : call.sleeps[k] = RETRY_BACKOFF_SECS * k
    /\ call.state = "run" /\ call.attempt <= MAX_RETRIES => Len(call.sleeps) = call.attempt - 1
    /\ call.state = "raised" /\ MAX_RETRIES >= 1 =>
          call.sleeps = [k \in 1..(MAX_RETRIES - 1) |-> RETRY_BACKOFF_SECS * k]

\* a call that raised after three failed attempts and two sleeps
C17_Witness ==
    /\ call.state = "raised" /\ MAX_RETRIES = 3 /\ call.requests = 3
    /\ call.sleeps = <<RETRY_BACKOFF_SECS, RETRY_BACKOFF_SECS * 2>>

\* C18: for every item the crawl counts as new, the run has executed, in its
\* transaction and before it moves to the next item, the insert of the
\* first-seen marker with the source tag and then the upsert of the full record.
C18_MarkerThenUpsert ==
    pc \in RunPcs \cup {"done"} =>
        /\ Len(sql) = 2 * stats.new
        /\ \A i \in 1..stats.new :
              /\ sql[2 * i - 1] = SqlInsertFirstSeen(items[i].uuid, SOURCE_PAGE)
              /\ sql[2 * i] = SqlUpsert(items[i].uuid)

\* C19: the backfill commits per row: while a later row of the batch is being
\* processed the patch of every earlier row is in the committed table, which is
\* what an interruption at that moment leaves.
C19_CommitPerRow ==
    (pc = "bf_fetch" \/ (pc = "bf_row" /\ idx <= Len(rows))) =>
        \A u \in Patched : store[u] = tx[u]

\* the values kept under key by the dicts of data, in depth-first order (a
\* dict before its values, dict values in key order, list elements in order);
\* deep tells whether the values of a dict that holds the key are walked too
RECURSIVE KeyValues(_, _, _)
RECURSIVE KeyValuesIn(_, _, _)
KeyValues(data, key, deep) ==
    IF IsDict(data) /\ HasKey(data, key)
    THEN <<Lookup(data, key)>> \o (IF deep THEN KeyValuesIn(data.e, key, deep) ELSE <<>>)
    ELSE IF IsDict(data) \/ IsList(data) THEN KeyValuesIn(data.e, key, deep)
    ELSE <<>>
KeyValuesIn(es, key, deep) ==
    IF es = <<>> THEN <<>>
    ELSE KeyValues(Head(es).v, key, deep) \o KeyValuesIn(Tail(es), key, deep)

\* what the search of a fragment returns according to C20 as stated: the
\* first value under the key
FirstValue(frag) ==
    IF frag.kind # "json" \/ KeyValues(frag.j, "ssrIdeaData", TRUE) = <<>> THEN JNull
    ELSE KeyValues(frag.j, "ssrIdeaData", TRUE)[1]

\* and according to C20 amended: the first value that is not null, the values
\* of a dict that holds the key being left out
FirstNonNull(frag) ==
    LET vals == IF frag.kind = "json" THEN KeyValues(frag.j, "ssrIdeaData", FALSE) ELSE <<>>
        at == {k \in 1..Len(vals) : vals[k] # JNull}
    IN  IF at = {} THEN JNull ELSE vals[Least(at)]

\* the returned record was built from the payload p; it was built from none
BuiltFrom(p) ==
    /\ Lookup(parsed, "symbol") # JNull
    /\ Lookup(Lookup(parsed, "data"), "name") = FieldOf(p, "name")
BuiltFromNone == Lookup(parsed, "symbol") = JNull

\* C20 as stated: the payload of a returned record is the first value under the
\* key, in depth-first order, of the first fragment for which that value is a
\* dict; when no fragment has one, no payload is found.
C20_FirstValueWins ==
    (pc = "parse_done" /\ parsed # JRaise) =>
        LET win == {k \in 1..Len(html) : IsDict(FirstValue(html[k]))} IN
        IF win = {} THEN BuiltFromNone ELSE BuiltFrom(FirstValue(html[Least(win)]))

\* C20 amended: fragments are examined in page order; within a fragment the
\* search is depth-first (a dict's own key before its values, dict values in
\* key order, list elements in order), it does not walk the values of a dict
\* that holds the key, it takes a null under the key for no value and goes on,
\* and it returns the first value under the key that is not null; the payload
\* is that value for the first fragment where it is a dict; fragments that are
\* empty, not JSON or yield a non-dict are passed over, and no fragment after
\* the winning one is searched.
C20_FirstNonNullWins ==
    (pc = "parse_done" /\ parsed # JRaise) =>
        LET win == {k \in 1..Len(html) : IsDict(FirstNonNull(html[k]))} IN
        IF win = {} THEN BuiltFromNone ELSE BuiltFrom(FirstNonNull(html[Least(win)]))

\* a page of three fragments: the first yields a string, the second a payload
\* found after a null under the key, the third another payload, left unused
C20_Witness ==
    /\ pc = "parse_done" /\ parsed # JRaise /\ Len(html) = 3
    /\ IsStr(FirstNonNull(html[1]))
    /\ FirstValue(html[2]) = JNull /\ IsDict(FirstNonNull(html[2]))
    /\ IsDict(FirstNonNull(html[3]))
    /\ FieldOf(FirstNonNull(html[3]), "name") # FieldOf(FirstNonNull(html[2]), "name")
    /\ BuiltFrom(FirstNonNull(html[2]))

\* the row's detail page resolves a non-null price scale: http_get returns the
\* page and parse_detail_page finds a price scale in it
Resolves(u) ==
    /\ MAX_RETRIES >= 1
    /\ site[u].kind = "resp" /\ 200 <= site[u].status /\ site[u].status < 300
    /\ ResolvedPs(parse_detail_page(site[u].body)) \notin {JNull, JRaise}

HasPricescale(u) ==
    /\ u \in DOMAIN store /\ IsDict(store[u].data)
    /\ HasKey(store[u].data, "pricescale") /\ Lookup(store[u].data, "pricescale") # JNull

\* C21 as claimed: under repeated non-dry-run backfill runs over a table that
\* receives no new rows, every row whose detail page resolves a non-null price
\* scale eventually has its price scale set, whatever the older rows do.
C21_EveryResolvingRowSet ==
    \A u \in BfUuids :
        (~ONLY_DRY_RUN /\ u \in DOMAIN store /\ Resolves(u)) ~> HasPricescale(u)

\* the rows that stay without a price scale for ever: no run resolves one
Stuck(v) == ~HasPricescale(v) /\ ~Resolves(v)

\* the stuck rows the select statement may return before u
Blockers(u) ==
    {v \in DOMAIN store \ {u} :
        Stuck(v) /\ store[v].first_seen_at.n <= store[u].first_seen_at.n}

\* C21, amended: a row with a payload (every row a crawl writes has one) whose
\* detail page resolves a non-null price scale eventually has its price scale
\* set provided fewer than BATCH_SIZE of the rows first seen no later than it
\* stay without one for ever.
C21_ProgressUnblocked ==
    \A u \in BfUuids :
        (/\ ~ONLY_DRY_RUN /\ u \in DOMAIN store /\ Resolves(u)
         /\ Cardinality(Blockers(u)) < BATCH_SIZE) ~> HasPricescale(u)

\* the end of a run that set the newest row, while an older row stays unset
\* and another older row was set by an earlier run
C21_Witness ==
    /\ pc = "bf_done" /\ ~ONLY_DRY_RUN /\ BATCH_SIZE = 2
    /\ DOMAIN store = BfUuids
    /\ HasPricescale(<<"u3">>) /\ JsonText(store0[<<"u3">>].data, "pricescale") = JNull
    /\ Stuck(<<"u1">>) /\ <<"u1">> \in {rows[i].uuid : i \in 1..Len(rows)}
    /\ Resolves(<<"u2">>) /\ HasPricescale(<<"u2">>)

CrawlRunning == {"fetch_listing", "loop", "fetch_detail", "commit"}
CrawlEnded == {"done", "aborted"}

\* C22: provided every HTTP attempt returns or times out, every crawl run ends,
\* committed or aborted, after at most MAX_RETRIES * (1 + number of listing
\* items) attempts, and every backfill run ends after at most MAX_RETRIES *
\* BATCH_SIZE attempts.
C22_Termination ==
    /\ [](pc \in CrawlRunning \cup CrawlEnded => net.reqs <= MAX_RETRIES * (1 + Len(items)))
    /\ [](pc \in BfPcs => net.reqs <= MAX_RETRIES * BATCH_SIZE)
    /\ (pc \in CrawlRunning) ~> (pc \in CrawlEnded)
    /\ (pc \in {"bf_row", "bf_fetch"}) ~> (pc = "bf_done")

\* a committed crawl run of a listing of two items that used every attempt it had
C22_Witness ==
    /\ pc = "done" /\ MAX_RETRIES = 2 /\ Len(items) = 2
    /\ net.reqs = MAX_RETRIES * (1 + Len(items))

\* C23: at every point of a crawl run between two statements of the loop,
\* stats.new is the number of detail pages fetched in the run and the number
\* of upsert_full_record calls made in its transaction; a detail page is
\* fetched only for an item has_uuid reported absent, and every item whose
\* page was fetched is upserted and counted as new, whatever was extracted.
C23_CrawlAccounting ==
    /\ pc \in {"loop", "commit", "done", "aborted"} =>
          /\ stats.new = net.fetched
          /\ stats.new = Len(sql)
          /\ \A i \in 1..Len(sql) :
                sql[i].op = "upsert_full_record" /\ sql[i].uuid \notin DOMAIN store0
    /\ pc = "fetch_detail" => ~has_uuid(tx, items[idx].uuid)

====
